---- MODULE Spec2Model ----
(***************************************************************************)
(* The first-person player controller of src/game/controls/               *)
(* PlayerController.tsx as a state machine: keyboard and pointer handlers, *)
(* the per-frame callback, the collision callbacks, the auto-fire interval *)
(* and the projectile expiry timers.                                       *)
(*                                                                         *)
(* Numbers are fixed point.  Lengths and velocities are in thousandths of  *)
(* a unit (4.5 units/s is 4500), angles in ten-thousandths of a radian     *)
(* (0.0035 rad is 35), times in milliseconds.                              *)
(***************************************************************************)
EXTENDS Integers, Sequences, FiniteSets, TLC

\* ------------------------------------------------------------ constants
MOVE_SPEED == 4500
LOOK_SENSITIVITY == 35
CAMERA_HEIGHT == 1300
\* Math.PI / 2 - 0.05 = 1.52079..., in ten-thousandths of a radian
MAX_PITCH == 15208
JUMP_IMPULSE == 4500
GUN_SWAY_INTENSITY == 45
GUN_SWAY_SMOOTHING == 12
PROJECTILE_SPEED == 30
PROJECTILE_LIFETIME_MS == 2400
AUTO_FIRE_ENABLED == TRUE
AUTO_FIRE_INTERVAL_MS == 250
\* the 0.2 of the jump check, Math.abs(currentVelocity.y) < 0.2
JUMP_VY_THRESHOLD == 200
GUN_POSITION_OFFSET == [x |-> 200, y |-> -350, z |-> -500]
GUN_MUZZLE_OFFSET == [x |-> 0, y |-> 130, z |-> -750]
\* position={[0, CAMERA_HEIGHT, 8]} of the player's RigidBody
BODY_START == [x |-> 0, y |-> CAMERA_HEIGHT, z |-> 8000]

\* --------------------------------------------------------------- bounds
\* collision-enter events are accepted while the counter is below this
MaxContacts == 2
\* non-repeat Space key-downs are accepted while fewer than this were seen
MaxSpaceDowns == 2
\* pointer moves are accepted while |yaw| stays within this (1e-4 rad)
MaxYaw == 5250
\* spawns are accepted while fewer than this many ids were handed out
MaxSpawns == 3
\* the clock stops here (ms)
MaxTime == 2500
\* the controller is mounted at most this many times
MaxInstances == 2
\* where the clock stops in the specification of the controller's lifetime (ms)
MaxLifeTime == 500
\* the resolution, in thousandths, at which a computed speed is compared
SpeedTolerance == 5
\* where the clock stops in the specification of the projectiles' end (ms): one
\* interval after the last record that presses in the first interval can leave
\* behind has expired
EndTime == AUTO_FIRE_INTERVAL_MS * (MaxSpawns + 1) + PROJECTILE_LIFETIME_MS
\* how long each paced run of the sway update is followed (ms), from when on it is
\* compared with its target (ms), and the resolution of that comparison
MaxPace == 640
SettleTime == 500
SwayTolerance == 8
\* frames are followed while the weapon sway is at most this far from rest
SwayCap == 60

NULL == "null"
\* the value of fireIntervalRef when no interval is set; handles are positive
NoHandle == 0
CANVAS == "canvas"
BODY == "body"
GUN == "gun"
Milli == 10 * 10 * 10

\* ------------------------------------------------------------- inputs
KeyCodes == {"KeyW", "KeyS", "KeyA", "KeyD", "Space", "KeyQ"}
MoveCodes == {"KeyW", "KeyS", "KeyA", "KeyD"}
JumpCodes == {"Space", "KeyQ"}
\* event.movementX / movementY samples (px)
MovementXs == {-150, 0, 150}
MovementYs == {-500, -1, 0, 1, 500}
\* vertical velocities the physics engine may leave the body with
VySamples == {-JUMP_VY_THRESHOLD, 1 - JUMP_VY_THRESHOLD, 0,
              JUMP_VY_THRESHOLD - 1, JUMP_VY_THRESHOLD}
\* body positions the physics engine may leave the body at
Positions == {BODY_START, [x |-> 0, y |-> 900, z |-> 8000]}
\* frame deltas (ms)
Deltas == {16, 33}
Buttons == {0, 2}
Targets == {CANVAS, "hud"}
Flags == {"forward", "backward", "left", "right", "jump"}
\* the listeners the three effects register, and the useFrame subscription
KeyListeners == {"keydown", "keyup"}
LookListeners == {"click", "pointermove"}
FireListeners == {"pointerdown", "pointerup", "pointercancel", "pointerleave",
                  "pointerlockchange"}
DeviceEvents == KeyListeners \cup LookListeners \cup FireListeners
AllListeners == DeviceEvents \cup {"frame"}

\* ------------------------------------------------------------ variables
VARIABLES
    keyState,            \* module-level record of held keys
    invertY,             \* the invertY prop, App's invertMouseY state
    yaw, pitch,          \* look refs
    mirror,              \* look refs of a second controller mounted with the
                         \* opposite invertY prop; its document-level
                         \* pointermove listener sees the same events
    pointerLockElement,  \* document.pointerLockElement
    lockRequests,        \* canvas.requestPointerLock() was called
    bodyRef, gunRef,     \* refs to the rigid body and the weapon group
    body,                \* the engine's rigid body: translation, linvel, angvel
    camera,              \* camera.position and camera.quaternion (as pitch, yaw)
    gunSway,             \* smoothed weapon offset
    gun,                 \* weapon group pose
    contactCount,
    jumpRequested,
    fireIntervalRef,     \* handle of the auto-fire interval, or NoHandle
    intervals,           \* the window's live intervals: [handle, due]
    projectileIdRef,
    projectiles,         \* React state: sequence of [id, origin, direction]
    mounted,             \* mounted Projectile components: [id, linvel, due], due
                         \* being when the expiry timeout set on mount fires
    now,                 \* clock (ms)
    listeners,           \* the registered listeners of the controller's effects
    instance,            \* how many times the controller has been mounted
    alive,               \* the current controller instance is mounted
    second,              \* another controller instance is mounted beside it
    scenery,             \* the SceneryCluster as last rendered: props, scene, result
    paced,               \* two runs of the sway update under one held velocity, each
                         \* at its own frame delta
    \* history variables, read by the properties only
    lastFrame,           \* what the last frame callback read and did
    spaceDowns,          \* number of non-repeat Space key-downs
    impulses,            \* number of jump impulses applied
    impulsesSinceDown,   \* impulses since the last non-repeat Space key-down
    lastPointerMove,     \* the pitch deltas the last pointer move applied
    spawnLog,            \* every spawn: [id, at, cause]
    stopMark,            \* Len(spawnLog) at the last stop event; -1 after a
                         \* qualifying press or before any stop
    hold,                \* [at, base] of the press that started the interval
    lastWalk,            \* what the last observed frame with a body found held and
                         \* wrote
    lastJump,            \* the Space key-downs counted since the last frame with a
                         \* body, and what that frame made of those before it
    lastGun,             \* what the last observed frame with a body found at the
                         \* weapon mount and did
    lastClick,           \* what the last observed click found and did
    lastAim,             \* the pose the last frame with a body had to give the
                         \* camera, and what the last observed spawn read and made
    touching,            \* the contacts whose collision-enter was observed and
                         \* whose collision-exit was not yet
    firstBody,           \* what the frames before the first frame with a body did
                         \* to the jump request, and what that first frame found
    lastContact,         \* what the last observed collision event was and did
    lastKey,             \* what the last observed key event was and did
    lastLook,            \* what the last observed pointer move was and did
    lastPress,           \* what the last observed pointer-down was and did
    lastExpire,          \* the collection before and after the last expiry callback
    downIn,              \* per flag, the instance whose key-down set it; 0 once a
                         \* key-up for its key was received
    unmounted,           \* the look refs, request and spawn count at the last unmount
    lateEvent            \* a device event was dispatched with no listener for it

lookVars == <<invertY, yaw, pitch, mirror, lastPointerMove>>
lockVars == <<pointerLockElement, lockRequests>>
bodyVars == <<bodyRef, gunRef, body, camera, gunSway, gun, lastFrame>>
jumpVars == <<contactCount, jumpRequested, spaceDowns, impulses, impulsesSinceDown>>
fireVars == <<fireIntervalRef, intervals, projectileIdRef, projectiles, mounted,
              spawnLog, stopMark, hold, lastExpire>>
keyVars == <<keyState, downIn>>
lifeVars == <<listeners, instance, alive, second, unmounted, lateEvent, scenery, paced>>
seenVars == <<lastPress, lastWalk, lastLook, lastKey, lastContact, lastJump, lastGun,
              lastClick, firstBody, touching, lastAim>>
vars == <<keyVars, lifeVars, lookVars, lockVars, bodyVars, jumpVars, fireVars, now,
          seenVars>>

Listening(name) == name \in listeners

\* ------------------------------------------------------------- helpers
Abs(n) == IF n < 0 THEN -n ELSE n
Max(a, b) == IF a > b THEN a ELSE b
Min(a, b) == IF a < b THEN a ELSE b
\* a / b rounded toward zero
Quot(a, b) == IF a < 0 THEN -((-a) \div b) ELSE a \div b
\* product of two thousandths, rounded toward zero
MulMilli(a, b) == Quot(a * b, Milli)

\* x * x for x in thousandths, in thousandths
SquareMilli(m) == (m * m) \div Milli
\* sin x / x from x * x, in thousandths (Taylor, Horner form)
SinT1(x2) ==
    Milli - (x2 * (Milli - (x2 * (Milli - x2 \div 42)) \div (20 * Milli)))
                \div (6 * Milli)
\* cos x from x * x, in thousandths (Taylor, Horner form)
CosT1(x2) ==
    Milli - (x2 * (Milli - (x2 * (Milli - x2 \div 30)) \div (12 * Milli)))
                \div (2 * Milli)
\* sin and cos of an angle given in 1e-4 rad, in thousandths
SinMilli(a) == MulMilli(Quot(a, 10), SinT1(SquareMilli(Quot(a, 10))))
CosMilli(a) == CosT1(SquareMilli(Quot(a, 10)))

RECURSIVE SqrtBetween(_, _, _)
\* the r with lo <= r < hi and r * r <= n < (r + 1) * (r + 1), by bisection
SqrtBetween(n, lo, hi) ==
    IF hi - lo <= 1 THEN lo
    ELSE IF ((lo + hi) \div 2) * ((lo + hi) \div 2) <= n
         THEN SqrtBetween(n, (lo + hi) \div 2, hi)
         ELSE SqrtBetween(n, lo, (lo + hi) \div 2)
\* integer square root of a number below 2^30
ISqrt(n) == SqrtBetween(n, 0, 32768)

Vec(a, b, c) == [x |-> a, y |-> b, z |-> c]
ZeroVec == Vec(0, 0, 0)
VAdd(u, v) == Vec(u.x + v.x, u.y + v.y, u.z + v.z)
VSub(u, v) == Vec(u.x - v.x, u.y - v.y, u.z - v.z)
VScaleMilli(u, k) == Vec(MulMilli(u.x, k), MulMilli(u.y, k), MulMilli(u.z, k))
LengthSq(v) == v.x * v.x + v.y * v.y + v.z * v.z

\* rotation about the X axis, and about the Y axis, by the angle of cosine c and sine s
RotateX(v, c, s) ==
    Vec(v.x, MulMilli(v.y, c) - MulMilli(v.z, s), MulMilli(v.y, s) + MulMilli(v.z, c))
RotateY(v, c, s) ==
    Vec(MulMilli(v.x, c) + MulMilli(v.z, s), v.y, MulMilli(v.z, c) - MulMilli(v.x, s))

\* Vector3.applyEuler(new Euler(p, y, 0, 'YXZ')): rotate about X by p, then about Y by y
ApplyEuler(v, p, y) ==
    RotateY(RotateX(v, CosMilli(p), SinMilli(p)), CosMilli(y), SinMilli(y))

\* v * s / len, componentwise
ScaleOver(v, s, len) == Vec(Quot(v.x * s, len), Quot(v.y * s, len), Quot(v.z * s, len))
\* Vector3.normalize().multiplyScalar(s) of a vector in thousandths
NormalizeTo(v, s) == ScaleOver(v, s, ISqrt(LengthSq(v)))

\* ------------------------------------------------- keyboard (lines 104-157)
\* lines 32-38: the record as the module creates it
NoKeys == [f \in Flags |-> FALSE]

KeyFlag(code) ==
    CASE code = "KeyW" -> "forward"
      [] code = "KeyS" -> "backward"
      [] code = "KeyA" -> "left"
      [] code = "KeyD" -> "right"
      [] code = "Space" -> "jump"
      [] OTHER -> NULL

\* onKeyDown's effect on the held-key record
KeyStateAfterDownOnRepeat(ks, code, repeat) ==
    IF KeyFlag(code) = NULL THEN ks ELSE [ks EXCEPT ![KeyFlag(code)] = TRUE]

KeyStateAfterDown(ks, code, repeat) ==
    IF repeat \/ KeyFlag(code) = NULL THEN ks
    ELSE [ks EXCEPT ![KeyFlag(code)] = TRUE]

RequestsJumpOnRepeat(code, repeat) == code = "Space"

\* whether onKeyDown records a jump request
RequestsJump(code, repeat) == ~repeat /\ code = "Space"

\* onKeyUp's effect on the held-key record
KeyStateAfterUp(ks, code) ==
    IF KeyFlag(code) = NULL THEN ks ELSE [ks EXCEPT ![KeyFlag(code)] = FALSE]

KeyDown(code, repeat) ==
    /\ Listening("keydown")
    /\ (~repeat /\ code = "Space") => spaceDowns < MaxSpaceDowns
    /\ keyState' = KeyStateAfterDown(keyState, code, repeat)
    /\ downIn' = IF ~repeat /\ KeyFlag(code) # NULL /\ downIn[KeyFlag(code)] = 0
                 THEN [downIn EXCEPT ![KeyFlag(code)] = instance]
                 ELSE downIn
    /\ jumpRequested' = (jumpRequested \/ RequestsJump(code, repeat))
    /\ spaceDowns' = IF ~repeat /\ code = "Space" THEN spaceDowns + 1 ELSE spaceDowns
    /\ impulsesSinceDown' = IF ~repeat /\ code = "Space" THEN 0 ELSE impulsesSinceDown
    /\ UNCHANGED <<contactCount, impulses>>
    /\ UNCHANGED <<lifeVars, lookVars, lockVars, bodyVars, fireVars, now>>

KeyUp(code) ==
    /\ Listening("keyup")
    /\ keyState' = KeyStateAfterUp(keyState, code)
    /\ downIn' = IF KeyFlag(code) # NULL THEN [downIn EXCEPT ![KeyFlag(code)] = 0]
                 ELSE downIn
    /\ UNCHANGED <<lifeVars, lookVars, lockVars, bodyVars, jumpVars, fireVars, now>>

OnKeyDown(code, repeat) ==
    /\ KeyDown(code, repeat)
    /\ UNCHANGED seenVars

OnKeyUp(code) ==
    /\ KeyUp(code)
    /\ UNCHANGED seenVars

\* the number the key-downs of the other controller instance are written down under
SecondInstance == MaxInstances + 1

\* lines 105-127 as registered by another controller instance: its listener writes
\* the same module-level record (lines 32-38); its own refs are not modelled. While
\* this controller listens too, the event is KeyDown, whose effect on the record
\* is the same
SecondKeyDown(code, repeat) ==
    /\ second
    /\ ~Listening("keydown")
    /\ keyState' = KeyStateAfterDown(keyState, code, repeat)
    /\ downIn' = IF ~repeat /\ KeyFlag(code) # NULL /\ downIn[KeyFlag(code)] = 0
                 THEN [downIn EXCEPT ![KeyFlag(code)] = SecondInstance]
                 ELSE downIn
    /\ UNCHANGED <<lifeVars, lookVars, lockVars, bodyVars, jumpVars, fireVars, now>>
    /\ UNCHANGED seenVars

\* lines 129-149 as registered by another controller instance
SecondKeyUp(code) ==
    /\ second
    /\ ~Listening("keyup")
    /\ keyState' = KeyStateAfterUp(keyState, code)
    /\ downIn' = IF KeyFlag(code) # NULL THEN [downIn EXCEPT ![KeyFlag(code)] = 0]
                 ELSE downIn
    /\ UNCHANGED <<lifeVars, lookVars, lockVars, bodyVars, jumpVars, fireVars, now>>
    /\ UNCHANGED seenVars

NoKey == [seen |-> FALSE, type |-> "keydown", code |-> "KeyQ", repeat |-> FALSE,
          before |-> NoKeys, after |-> NoKeys,
          requestBefore |-> FALSE, requestAfter |-> FALSE]

\* onKeyDown and onKeyUp, with the event, the key-state record and the jump
\* request before and after written down
ObservedKeyDown(code, repeat) ==
    /\ KeyDown(code, repeat)
    /\ lastKey' = [seen |-> TRUE, type |-> "keydown", code |-> code, repeat |-> repeat,
                   before |-> keyState, after |-> keyState',
                   requestBefore |-> jumpRequested, requestAfter |-> jumpRequested']
    /\ UNCHANGED <<lastPress, lastWalk, lastLook, lastContact, lastJump, lastGun,
                 lastClick, firstBody, touching, lastAim>>

ObservedKeyUp(code) ==
    /\ KeyUp(code)
    /\ lastKey' = [seen |-> TRUE, type |-> "keyup", code |-> code, repeat |-> FALSE,
                   before |-> keyState, after |-> keyState',
                   requestBefore |-> jumpRequested, requestAfter |-> jumpRequested']
    /\ UNCHANGED <<lastPress, lastWalk, lastLook, lastContact, lastJump, lastGun,
                 lastClick, firstBody, touching, lastAim>>

NoJump == [seen |-> FALSE, downs |-> 0, consumed |-> 0, applied |-> 0]

\* onKeyDown, with the non-repeat Space key-downs since the last frame with a body
\* counted
CountedKeyDown(code, repeat) ==
    /\ KeyDown(code, repeat)
    /\ lastJump' = IF RequestsJump(code, repeat)
                   THEN [lastJump EXCEPT !.downs = lastJump.downs + 1]
                   ELSE lastJump
    /\ UNCHANGED <<lastPress, lastWalk, lastLook, lastKey, lastContact, lastGun,
                 lastClick, firstBody, touching, lastAim>>

\* ------------------------------------------- pointer look (lines 159-183)
RequestsLockAlways(element) == TRUE

\* line 163: whether the click calls canvas.requestPointerLock()
RequestsLock(element) == element # CANVAS

\* lines 162-166
Click ==
    /\ Listening("click")
    /\ lockRequests' = (lockRequests \/ RequestsLock(pointerLockElement))
    /\ UNCHANGED pointerLockElement
    /\ UNCHANGED <<keyVars, lifeVars, lookVars, bodyVars, jumpVars, fireVars, now>>

HandleClick ==
    /\ Click
    /\ UNCHANGED seenVars

NoClick == [seen |-> FALSE, locked |-> FALSE, before |-> FALSE, after |-> FALSE,
            kept |-> TRUE]

\* handleClick, with the lock it found, the pending request before and after it,
\* and whether it left the look refs and the key flags as they were, written down
ObservedClick ==
    /\ Click
    /\ lastClick' = [seen |-> TRUE, locked |-> pointerLockElement = CANVAS,
                     before |-> lockRequests, after |-> lockRequests',
                     kept |-> /\ yaw' = yaw
                              /\ pitch' = pitch
                              /\ keyState' = keyState]
    /\ UNCHANGED <<lastPress, lastWalk, lastLook, lastKey, lastContact, lastJump,
                   lastGun, firstBody, touching, lastAim>>

\* the settings checkbox changes the invertY prop; the look effect re-registers its
\* handlers with the new value and the look refs persist
SetInvertMouseY(checked) ==
    /\ alive
    /\ invertY' = checked
    /\ UNCHANGED <<yaw, pitch, mirror, lastPointerMove>>
    /\ UNCHANGED <<keyVars, lifeVars, lockVars, bodyVars, jumpVars, fireVars, now, seenVars>>

InvertFactorIgnored(inv) == -LOOK_SENSITIVITY

InvertFactor(inv) == IF inv THEN LOOK_SENSITIVITY ELSE -LOOK_SENSITIVITY

\* the amount handlePointerMove adds to pitch before clamping
PitchDelta(inv, movementY) == movementY * InvertFactor(inv)

ClampPitchUpperOnly(p) == Min(MAX_PITCH, p)

ClampPitch(p) == Max(-MAX_PITCH, Min(MAX_PITCH, p))

LookAfterMoveUnlocked(look, inv, locked, movementX, movementY) ==
    [yaw |-> look.yaw - movementX * LOOK_SENSITIVITY,
     pitch |-> ClampPitch(look.pitch + PitchDelta(inv, movementY))]

\* handlePointerMove on the look refs [yaw, pitch] of a controller whose invertY prop is inv
LookAfterMove(look, inv, locked, movementX, movementY) ==
    IF ~locked THEN look
    ELSE [yaw |-> look.yaw - movementX * LOOK_SENSITIVITY,
          pitch |-> ClampPitch(look.pitch + PitchDelta(inv, movementY))]

PointerMoveTo(mine, locked, movementX, movementY) ==
    /\ Listening("pointermove")
    /\ Abs(mine.yaw) <= MaxYaw
    /\ yaw' = mine.yaw
    /\ pitch' = mine.pitch
    /\ mirror' = LookAfterMove(mirror, ~invertY, locked, movementX, movementY)
    /\ lastPointerMove' =
          [locked |-> locked,
           mine |-> IF locked THEN PitchDelta(invertY, movementY) ELSE 0,
           mirror |-> IF locked THEN PitchDelta(~invertY, movementY) ELSE 0]
    /\ UNCHANGED <<invertY, keyVars, lifeVars, lockVars, bodyVars, jumpVars, fireVars, now>>

PointerMove(movementX, movementY) ==
    PointerMoveTo(LookAfterMove([yaw |-> yaw, pitch |-> pitch], invertY,
                                pointerLockElement = CANVAS, movementX, movementY),
                  pointerLockElement = CANVAS, movementX, movementY)

HandlePointerMove(movementX, movementY) ==
    /\ PointerMove(movementX, movementY)
    /\ UNCHANGED seenVars

NoLook == [seen |-> FALSE, locked |-> FALSE, movementX |-> 0, movementY |-> 0,
           before |-> [yaw |-> 0, pitch |-> 0], after |-> [yaw |-> 0, pitch |-> 0]]

\* handlePointerMove, with the event, the lock and the look refs before and after
\* written down
ObservedPointerMove(movementX, movementY) ==
    /\ PointerMove(movementX, movementY)
    /\ lastLook' = [seen |-> TRUE, locked |-> pointerLockElement = CANVAS,
                    movementX |-> movementX, movementY |-> movementY,
                    before |-> [yaw |-> yaw, pitch |-> pitch],
                    after |-> [yaw |-> yaw', pitch |-> pitch']]
    /\ UNCHANGED <<lastPress, lastWalk, lastKey, lastContact, lastJump, lastGun,
                 lastClick, firstBody, touching, lastAim>>

\* --------------------------------------- collision callbacks (lines 285-290)
ContactsAfterEnter(c) == c + 1

ContactsAfterExitUnfloored(c) == c - 1

ContactsAfterExitReset(c) == 0

ContactsAfterExit(c) == Max(0, c - 1)

CollisionEnter ==
    /\ bodyRef = BODY
    /\ contactCount < MaxContacts
    /\ contactCount' = ContactsAfterEnter(contactCount)
    /\ UNCHANGED <<jumpRequested, spaceDowns, impulses, impulsesSinceDown>>
    /\ UNCHANGED <<keyVars, lifeVars, lookVars, lockVars, bodyVars, fireVars, now>>

CollisionExit ==
    /\ bodyRef = BODY
    /\ contactCount' = ContactsAfterExit(contactCount)
    /\ UNCHANGED <<jumpRequested, spaceDowns, impulses, impulsesSinceDown>>
    /\ UNCHANGED <<keyVars, lifeVars, lookVars, lockVars, bodyVars, fireVars, now>>

OnCollisionEnter ==
    /\ CollisionEnter
    /\ UNCHANGED seenVars

OnCollisionExit ==
    /\ CollisionExit
    /\ UNCHANGED seenVars

NoContact == [seen |-> FALSE, type |-> "enter", before |-> 0, after |-> 0]

\* the collision callbacks, with the counter before and after written down
ObservedCollisionEnter ==
    /\ CollisionEnter
    /\ lastContact' = [seen |-> TRUE, type |-> "enter", before |-> contactCount,
                       after |-> contactCount']
    /\ UNCHANGED <<lastPress, lastWalk, lastLook, lastKey, lastJump, lastGun,
                 lastClick, firstBody, touching, lastAim>>

ObservedCollisionExit ==
    /\ CollisionExit
    /\ lastContact' = [seen |-> TRUE, type |-> "exit", before |-> contactCount,
                       after |-> contactCount']
    /\ UNCHANGED <<lastPress, lastWalk, lastLook, lastKey, lastJump, lastGun,
                 lastClick, firstBody, touching, lastAim>>

\* the collision callbacks, with the contacts that began and have not ended
\* written down: an enter is of a contact that is not active, an exit of one
\* that is
TrackedCollisionEnter(contact) ==
    /\ contact \notin touching
    /\ CollisionEnter
    /\ touching' = touching \cup {contact}
    /\ UNCHANGED <<lastPress, lastWalk, lastLook, lastKey, lastContact, lastJump,
                   lastGun, lastClick, firstBody, lastAim>>

TrackedCollisionExit(contact) ==
    /\ contact \in touching
    /\ CollisionExit
    /\ touching' = touching \ {contact}
    /\ UNCHANGED <<lastPress, lastWalk, lastLook, lastKey, lastContact, lastJump,
                   lastGun, lastClick, firstBody, lastAim>>

\* ------------------------------------------------ refs and physics engine
MountBody ==
    /\ alive
    /\ bodyRef = NULL
    /\ bodyRef' = BODY
    /\ UNCHANGED <<gunRef, body, camera, gunSway, gun, lastFrame>>
    /\ UNCHANGED <<keyVars, lifeVars, lookVars, lockVars, jumpVars, fireVars, now, seenVars>>

MountGun ==
    /\ alive
    /\ gunRef = NULL
    /\ gunRef' = GUN
    /\ UNCHANGED <<bodyRef, body, camera, gunSway, gun, lastFrame>>
    /\ UNCHANGED <<keyVars, lifeVars, lookVars, lockVars, jumpVars, fireVars, now, seenVars>>

\* one step of the physics engine: it owns the body's position, its vertical
\* velocity (gravity, contacts) and its angular velocity
PhysicsStep(p, vy, w) ==
    /\ bodyRef = BODY
    /\ body' = [translation |-> p, linvel |-> [body.linvel EXCEPT !.y = vy], angvel |-> w]
    /\ UNCHANGED <<bodyRef, gunRef, camera, gunSway, gun, lastFrame>>
    /\ UNCHANGED <<keyVars, lifeVars, lookVars, lockVars, jumpVars, fireVars, now, seenVars>>

\* ------------------------------------------- frame callback (lines 223-276)
\* lines 233-235
FrontVector(y) == ApplyEuler(Vec(0, 0, -Milli), 0, y)
SideVector(y) == ApplyEuler(Vec(-Milli, 0, 0), 0, y)
\* lines 237-241
AddIf(held, direction, v) == IF held THEN VAdd(direction, v) ELSE direction
SubIf(held, direction, v) == IF held THEN VSub(direction, v) ELSE direction
HeldDirection(ks, frontVector, sideVector) ==
    SubIf(ks.right,
          AddIf(ks.left,
                SubIf(ks.backward, AddIf(ks.forward, ZeroVec, frontVector), frontVector),
                sideVector),
          sideVector)
ScaleToSpeedRaw(direction) == direction

\* lines 243-247
ScaleToSpeed(direction) ==
    IF LengthSq(direction) > 0 THEN NormalizeTo(direction, MOVE_SPEED) ELSE direction
MoveDirectionPerAxis(ks, y) ==
    VScaleMilli(HeldDirection(ks, FrontVector(y), SideVector(y)), MOVE_SPEED)

\* lines 233-247: the horizontal velocity wanted from the held keys and the yaw
MoveDirection(ks, y) == ScaleToSpeed(HeldDirection(ks, FrontVector(y), SideVector(y)))

WrittenLinvelDirection(direction, currentVelocity) == direction

\* lines 249-257: the vector handed to body.setLinvel
WrittenLinvel(direction, currentVelocity) ==
    Vec(direction.x, currentVelocity.y, direction.z)

JumpAllowedNoContact(requested, contacts, vy) ==
    requested /\ Abs(vy) < JUMP_VY_THRESHOLD

\* line 272: the jump check
JumpAllowed(requested, contacts, vy) ==
    requested /\ contacts > 0 /\ Abs(vy) < JUMP_VY_THRESHOLD

RequestAfterFrameKept(requested, fired) == requested

RequestAfterFrameIfFired(requested, fired) == requested /\ ~fired

\* line 275: the request flag the frame callback leaves behind
RequestAfterFrame(requested, fired) == FALSE

\* body.applyImpulse on a body of mass 1 (line 294)
ApplyImpulse(v, impulse) == VAdd(v, impulse)

\* e^(-x) for x in thousandths, in thousandths (Taylor, Horner form)
ExpTail(x) ==
    Milli - (x * (Milli - (x * (Milli - x \div 6)) \div (5 * Milli))) \div (4 * Milli)
ExpNegMilli(x) ==
    Milli - (x * (Milli - (x * (Milli - (x * ExpTail(x)) \div (3 * Milli)))
                               \div (2 * Milli))) \div Milli

LerpFactorFixed(delta) == Milli \div 10

\* line 262, delta in ms
LerpFactor(delta) == Milli - ExpNegMilli(GUN_SWAY_SMOOTHING * delta)

\* line 261
SwayTarget(currentVelocity) ==
    VScaleMilli(Vec(-currentVelocity.x, 0, -currentVelocity.z), GUN_SWAY_INTENSITY)

\* Vector3.lerp
Lerp(v, target, alpha) == VAdd(v, VScaleMilli(VSub(target, v), alpha))

NoFrame ==
    [called |-> FALSE, hadBody |-> FALSE, requested |-> FALSE, contacts |-> 0,
     readVy |-> 0, wrote |-> ZeroVec, impulse |-> ZeroVec, vyAfter |-> 0,
     requestAfter |-> FALSE]

\* which movement keys a frame found held: only forward, none, or another set
HeldClass(ks) ==
    IF ks.forward /\ ~ks.backward /\ ~ks.left /\ ~ks.right THEN "forward"
    ELSE IF ~ks.forward /\ ~ks.backward /\ ~ks.left /\ ~ks.right THEN "none"
    ELSE "other"


\* lines 228-231
CameraPose ==
    [position |-> VAdd(body.translation, Vec(0, CAMERA_HEIGHT, 0)),
     pitch |-> pitch, yaw |-> yaw]

\* lines 264-266
GunPose(cam, sway) ==
    [position |-> VAdd(cam.position,
                       ApplyEuler(VAdd(GUN_POSITION_OFFSET, sway), cam.pitch, cam.yaw)),
     pitch |-> cam.pitch, yaw |-> cam.yaw]

\* lines 273: the impulse handed to body.applyImpulse, if any
JumpImpulse(fired) == IF fired THEN Vec(0, JUMP_IMPULSE, 0) ELSE ZeroVec

GunSkipsNever(ref) == FALSE

\* lines 259-260: whether the callback passes over the weapon block
GunSkips(ref) == ref = NULL

\* lines 227-275, the callback past its body guard
FrameWithBody(currentVelocity, wrote, fired, sway) ==
    /\ camera' = CameraPose
    /\ body' = [body EXCEPT !.linvel = ApplyImpulse(wrote, JumpImpulse(fired)),
                            !.angvel = ZeroVec]
    /\ IF GunSkips(gunRef)
       THEN UNCHANGED <<gunSway, gun>>
       ELSE /\ gunSway' = sway
            /\ gun' = GunPose(CameraPose, sway)
    /\ jumpRequested' = RequestAfterFrame(jumpRequested, fired)
    /\ impulses' = IF fired THEN impulses + 1 ELSE impulses
    /\ impulsesSinceDown' = IF fired THEN impulsesSinceDown + 1 ELSE impulsesSinceDown
    /\ lastFrame' = [called |-> TRUE, hadBody |-> TRUE,
                     requested |-> jumpRequested, contacts |-> contactCount,
                     readVy |-> currentVelocity.y, wrote |-> wrote,
                     impulse |-> JumpImpulse(fired), vyAfter |-> body'.linvel.y,
                     requestAfter |-> jumpRequested']
    /\ UNCHANGED <<bodyRef, gunRef, contactCount, spaceDowns>>
    /\ UNCHANGED <<keyVars, lifeVars, lookVars, lockVars, fireVars, now>>

FrameSkipsNever(ref) == FALSE

\* line 225: whether the callback returns at its body guard
FrameSkips(ref) == ref = NULL

\* lines 223-225, the callback returning at its body guard
FrameWithoutBody ==
    /\ lastFrame' = [NoFrame EXCEPT !.called = TRUE, !.requested = jumpRequested,
                                    !.requestAfter = jumpRequested]
    /\ UNCHANGED <<bodyRef, gunRef, body, camera, gunSway, gun>>
    /\ UNCHANGED <<keyVars, lifeVars, lookVars, lockVars, jumpVars, fireVars, now>>

NoWalk == [seen |-> FALSE, held |-> "none", keys |-> NoKeys, yaw |-> 0, readVy |-> 0,
           wrote |-> ZeroVec, afterForward |-> FALSE, afterSkip |-> FALSE,
           full |-> TRUE, skipped |-> FALSE, untouched |-> TRUE]

FrameCallback(delta) ==
    /\ Listening("frame")
    /\ IF FrameSkips(bodyRef)
       THEN FrameWithoutBody
       ELSE FrameWithBody(body.linvel,
                          WrittenLinvel(MoveDirection(keyState, yaw), body.linvel),
                          JumpAllowed(jumpRequested, contactCount, body.linvel.y),
                          Lerp(gunSway, SwayTarget(body.linvel), LerpFactor(delta)))

Frame(delta) ==
    /\ FrameCallback(delta)
    /\ UNCHANGED seenVars

\* the frame callback, with what it did written down.  Of a frame run with the
\* body handle: the movement keys it found held, the yaw, the vector it handed to
\* setLinvel, whether the frame with a body before it ran at yaw 0 with only the
\* forward key held (afterForward), whether the observed frame before it ran
\* without the handle (afterSkip), and whether it made every write of the update
\* (full).  Of a frame run without the handle (skipped): whether it left the body,
\* the camera, the sway and the weapon as they were and applied no impulse
\* (untouched).
ObservedFrame(delta) ==
    /\ FrameCallback(delta)
    /\ lastWalk' =
          IF bodyRef = NULL
          THEN [lastWalk EXCEPT !.skipped = TRUE,
                                !.untouched = /\ body' = body
                                              /\ camera' = camera
                                              /\ gunSway' = gunSway
                                              /\ gun' = gun
                                              /\ impulses' = impulses]
          ELSE [seen |-> TRUE, held |-> HeldClass(keyState), keys |-> keyState,
                yaw |-> yaw,
                readVy |-> lastFrame'.readVy, wrote |-> lastFrame'.wrote,
                afterForward |-> lastWalk.seen /\ lastWalk.yaw = 0
                                    /\ lastWalk.held = "forward",
                afterSkip |-> lastWalk.skipped,
                full |-> /\ camera' = CameraPose
                         /\ body'.linvel.x = MoveDirection(keyState, yaw).x
                         /\ body'.linvel.z = MoveDirection(keyState, yaw).z
                         /\ body'.angvel = ZeroVec
                         /\ gunRef # NULL => gun' = GunPose(camera', gunSway'),
                skipped |-> FALSE, untouched |-> lastWalk.untouched]
    /\ UNCHANGED <<lastPress, lastLook, lastKey, lastContact, lastJump, lastGun,
                 lastClick, firstBody, touching, lastAim>>

\* the frame callback, with the key-downs counted before a frame with a body and
\* the impulses that frame applied written down
CountedFrame(delta) ==
    /\ FrameCallback(delta)
    /\ lastJump' = IF bodyRef = NULL THEN lastJump
                   ELSE [seen |-> TRUE, downs |-> 0, consumed |-> lastJump.downs,
                         applied |-> impulses' - impulses]
    /\ UNCHANGED <<lastPress, lastWalk, lastLook, lastKey, lastContact, lastGun,
                 lastClick, firstBody, touching, lastAim>>

NoGun == [seen |-> FALSE, gunless |-> FALSE, pulled |-> FALSE, spun |-> FALSE,
          requested |-> FALSE, allowed |-> FALSE, kept |-> TRUE, camera |-> TRUE,
          linvel |-> TRUE, angvel |-> TRUE, applied |-> 0, cleared |-> TRUE]

\* the frame callback, with what a frame with a body found and did written down:
\* whether the weapon node was missing (gunless), whether the sway target differed
\* from the sway (pulled), whether the body was spinning (spun), whether a jump
\* was requested and whether the check allowed it; whether the sway and the
\* weapon pose stayed as they were (kept), whether the camera pose, the velocity
\* and the angular velocity are those of the update, how many impulses were
\* applied and whether the request is clear
GunObservedFrame(delta) ==
    /\ FrameCallback(delta)
    /\ lastGun' =
          IF bodyRef = NULL
          THEN lastGun
          ELSE [seen |-> TRUE,
                gunless |-> gunRef = NULL,
                pulled |-> SwayTarget(body.linvel) # gunSway,
                spun |-> body.angvel # ZeroVec,
                requested |-> jumpRequested,
                allowed |-> JumpAllowed(jumpRequested, contactCount, body.linvel.y),
                kept |-> gunSway' = gunSway /\ gun' = gun,
                camera |-> camera' = CameraPose,
                linvel |-> body'.linvel =
                              VAdd(WrittenLinvel(MoveDirection(keyState, yaw), body.linvel),
                                   Vec(0, JUMP_IMPULSE * (impulses' - impulses), 0)),
                angvel |-> body'.angvel = ZeroVec,
                applied |-> impulses' - impulses,
                cleared |-> ~jumpRequested']
    /\ UNCHANGED <<lastPress, lastWalk, lastLook, lastKey, lastContact, lastJump,
                 lastClick, firstBody, touching, lastAim>>

NoFirstBody == [seen |-> FALSE, skipped |-> FALSE, kept |-> TRUE, downs |-> 0,
                requested |-> FALSE, allowed |-> FALSE, applied |-> 0]

\* the frame callback, with the frames up to the first one with a body written
\* down.  Of the frames without the handle: whether one ran with a request pending
\* (skipped) and whether each left the request as it was (kept).  Of the first
\* frame with the handle: how many non-repeat Space key-downs had come, whether
\* it found a request pending, whether the contact counter and the vertical speed
\* allowed a jump, and how many impulses it applied
FirstBodyFrame(delta) ==
    /\ FrameCallback(delta)
    /\ firstBody' =
          IF bodyRef # NULL
          THEN IF firstBody.seen
               THEN firstBody
               ELSE [firstBody EXCEPT !.seen = TRUE,
                                      !.downs = spaceDowns,
                                      !.requested = jumpRequested,
                                      !.allowed = /\ contactCount > 0
                                                  /\ Abs(body.linvel.y) < JUMP_VY_THRESHOLD,
                                      !.applied = impulses' - impulses]
          ELSE [firstBody EXCEPT !.skipped = firstBody.skipped \/ jumpRequested,
                                 !.kept = firstBody.kept /\ jumpRequested' = jumpRequested]
    /\ UNCHANGED <<lastPress, lastWalk, lastLook, lastKey, lastContact, lastJump,
                   lastGun, lastClick, touching, lastAim>>

\* ------------------------------------------------ projectiles (lines 74-102)
NoHold == [at |-> -1, base |-> -1]
NoPress == [seen |-> FALSE, button |-> 0, target |-> CANVAS, locked |-> FALSE,
            spawned |-> 0, started |-> 0]
NoExpire == [seen |-> FALSE, id |-> 0, live |-> FALSE, late |-> FALSE,
             before |-> <<>>, after |-> <<>>,
             counter |-> <<0, 0>>, timer |-> <<NoHandle, NoHandle>>]
NeverUnmounted == [yaw |-> 0, pitch |-> 0, jumpRequested |-> FALSE,
                   spawns |-> 0, interval |-> NoHandle, locked |-> FALSE]

\* lines 82-95: the record spawnProjectile builds from the camera pose and the sway
SpawnRecord(id, cam, sway) ==
    [id |-> id,
     origin |-> VAdd(cam.position,
                     ApplyEuler(VAdd(VAdd(GUN_POSITION_OFFSET, sway), GUN_MUZZLE_OFFSET),
                                cam.pitch, cam.yaw)),
     direction |-> NormalizeTo(ApplyEuler(Vec(0, 0, -Milli), cam.pitch, cam.yaw), Milli)]

NextProjectileIdStuck(id) == id

\* line 89
NextProjectileId(id) == id + 1

\* the scratch vectors of lines 70-72 stored in the record instead of copies of
\* their components: every earlier record shows what the latest spawn wrote
ProjectilesAfterSpawnAliased(prev, record) ==
    Append([i \in 1..Len(prev) |-> [prev[i] EXCEPT !.origin = record.origin,
                                                    !.direction = record.direction]],
           record)

\* lines 90-97: the new record holds fresh tuples of the vectors' components
ProjectilesAfterSpawn(prev, record) == Append(prev, record)

\* prev.splice(prev.indexOf(id), 1): an index of -1 takes the last record
HandleProjectileExpireSplice(prev, id) ==
    IF \E i \in 1..Len(prev) : prev[i].id = id
    THEN SelectSeq(prev, LAMBDA p : p.id # id)
    ELSE SubSeq(prev, 1, Len(prev) - 1)

HandleProjectileExpireNone(prev, id) == prev

HandleProjectileExpireThrough(prev, id) == SelectSeq(prev, LAMBDA p : p.id > id)

HandleProjectileExpireOthers(prev, id) == SelectSeq(prev, LAMBDA p : p.id = id)

\* line 101
HandleProjectileExpire(prev, id) == SelectSeq(prev, LAMBDA p : p.id # id)

\* lines 327-342: the effect of a Projectile mounting at time t
MountProjectile(record, t) ==
    [id |-> record.id,
     linvel |-> Vec(record.direction.x * PROJECTILE_SPEED,
                    record.direction.y * PROJECTILE_SPEED,
                    record.direction.z * PROJECTILE_SPEED),
     due |-> t + PROJECTILE_LIFETIME_MS]

Ids(ps) == {ps[i].id : i \in 1..Len(ps)}

\* spawnProjectile, and the mount of the new record's Projectile component
SpawnWith(record, cause) ==
    /\ projectileIdRef < MaxSpawns
    /\ projectileIdRef' = NextProjectileId(projectileIdRef)
    /\ projectiles' = ProjectilesAfterSpawn(projectiles, record)
    /\ mounted' = mounted \cup {MountProjectile(record, now)}
    /\ spawnLog' = Append(spawnLog, [id |-> record.id, at |-> now, cause |-> cause,
                                     cam |-> camera, sway |-> gunSway,
                                     origin |-> record.origin,
                                     direction |-> record.direction])

\* the camera with the look refs as they are now in place of its orientation
SpawnCameraFromLook == [camera EXCEPT !.pitch = pitch, !.yaw = yaw]

\* lines 82-86: the pose spawnProjectile reads, camera.quaternion and
\* camera.position
SpawnCamera == camera

SpawnProjectile(cause) ==
    SpawnWith(SpawnRecord(projectileIdRef, SpawnCamera, gunSway), cause)

IntervalsAfterStopKept(ref, ivs) == ivs

\* lines 74-79: the window's intervals after stopAutoFire
IntervalsAfterStop(ref, ivs) ==
    IF ref # NoHandle THEN {i \in ivs : i.handle # ref} ELSE ivs

StopAutoFire ==
    /\ intervals' = IntervalsAfterStop(fireIntervalRef, intervals)
    /\ fireIntervalRef' = NoHandle

\* a stop event: stopAutoFire, with no spawn
StopEvent ==
    /\ StopAutoFire
    /\ stopMark' = Len(spawnLog)
    /\ hold' = NoHold
    /\ UNCHANGED <<projectileIdRef, projectiles, mounted, spawnLog, lastExpire>>

\* ----------------------------------------- fire handlers (lines 185-221)
QualifiesLockedOnly(button, pointerLocked, target) == button = 0 /\ pointerLocked

\* line 189: whether handlePointerDown goes on to fire
Qualifies(button, pointerLocked, target) ==
    ~(button # 0 \/ (~pointerLocked /\ target # CANVAS))

StartsIntervalAlways(ref) == AUTO_FIRE_ENABLED

\* line 191
StartsInterval(ref) == AUTO_FIRE_ENABLED /\ ref = NoHandle

IntervalDueLifetime(t) == t + PROJECTILE_LIFETIME_MS

\* line 192: when an interval set or re-armed at time t next runs
IntervalDue(t) == t + AUTO_FIRE_INTERVAL_MS

\* window.setInterval hands out a handle no live interval has
FreshHandle(ivs) ==
    CHOOSE h \in 1..(Cardinality(ivs) + 1) : \A i \in ivs : i.handle # h

PointerDown(button, target) ==
    /\ Listening("pointerdown")
    /\ UNCHANGED lastExpire
    /\ IF ~Qualifies(button, pointerLockElement = CANVAS, target)
       THEN UNCHANGED <<fireIntervalRef, intervals, projectileIdRef, projectiles,
                        mounted, spawnLog, stopMark, hold>>
       ELSE /\ SpawnProjectile("press")
            /\ IF StartsInterval(fireIntervalRef)
               THEN LET h == FreshHandle(intervals)
                    IN  /\ fireIntervalRef' = h
                        /\ intervals' = intervals \cup
                              {[handle |-> h, due |-> IntervalDue(now)]}
                        /\ hold' = [at |-> now, base |-> Len(spawnLog)]
               ELSE UNCHANGED <<fireIntervalRef, intervals, hold>>
            /\ stopMark' = -1
    /\ UNCHANGED <<keyVars, lifeVars, lookVars, lockVars, bodyVars, jumpVars, now>>

HandlePointerDown(button, target) ==
    /\ PointerDown(button, target)
    /\ UNCHANGED seenVars

\* handlePointerDown, with what the press was and did written down
ObservedPointerDown(button, target) ==
    /\ PointerDown(button, target)
    /\ UNCHANGED <<lastWalk, lastLook, lastKey, lastContact, lastJump, lastGun,
                 lastClick, firstBody, touching, lastAim>>
    /\ lastPress' = [seen |-> TRUE, button |-> button, target |-> target,
                     locked |-> pointerLockElement = CANVAS,
                     spawned |-> Len(spawnLog') - Len(spawnLog),
                     started |-> Cardinality(intervals' \ intervals)]

HandlePointerUp(button) ==
    /\ Listening("pointerup")
    /\ IF button # 0 THEN UNCHANGED fireVars ELSE StopEvent
    /\ UNCHANGED <<keyVars, lifeVars, lookVars, lockVars, bodyVars, jumpVars, now, seenVars>>

PointerCancel ==
    /\ Listening("pointercancel")
    /\ StopEvent
    /\ UNCHANGED <<keyVars, lifeVars, lookVars, lockVars, bodyVars, jumpVars, now, seenVars>>

PointerLeave ==
    /\ Listening("pointerleave")
    /\ StopEvent
    /\ UNCHANGED <<keyVars, lifeVars, lookVars, lockVars, bodyVars, jumpVars, now, seenVars>>

\* the browser changes document.pointerLockElement (to the canvas after a request,
\* to nothing on exit) and dispatches pointerlockchange
HandlePointerLockChange(element) ==
    /\ element # pointerLockElement
    /\ element = CANVAS => lockRequests
    /\ pointerLockElement' = element
    /\ lockRequests' = FALSE
    /\ IF element = NULL /\ Listening("pointerlockchange")
       THEN StopEvent
       ELSE UNCHANGED fireVars
    /\ UNCHANGED <<keyVars, lifeVars, lookVars, bodyVars, jumpVars, now, seenVars>>

\* --------------------------------------------------------------- timers
\* the auto-fire interval's callback, run when it is due
IntervalRuns(i) ==
    /\ i.due <= now
    /\ SpawnProjectile("interval")
    /\ intervals' = (intervals \ {i}) \cup {[i EXCEPT !.due = IntervalDue(i.due)]}
    /\ UNCHANGED <<fireIntervalRef, stopMark, hold, lastExpire>>
    /\ UNCHANGED <<keyVars, lifeVars, lookVars, lockVars, bodyVars, jumpVars, now>>

IntervalTick(i) ==
    /\ IntervalRuns(i)
    /\ UNCHANGED seenVars

NoAim == [framed |-> FALSE,
          pose |-> [position |-> ZeroVec, pitch |-> 0, yaw |-> 0],
          shot |-> FALSE, cause |-> "press", id |-> 0,
          look |-> [pitch |-> 0, yaw |-> 0],
          aimed |-> [position |-> ZeroVec, pitch |-> 0, yaw |-> 0],
          sway |-> ZeroVec, origin |-> ZeroVec, direction |-> ZeroVec]

\* what a spawn leaves written down: the look refs and the sway it found, the
\* pose of the last frame with a body before it (the camera's first pose when
\* there was none), and the record it added
AimAfterSpawn(cause) ==
    IF Len(projectiles') = Len(projectiles)
    THEN lastAim
    ELSE [lastAim EXCEPT !.shot = TRUE, !.cause = cause,
                         !.id = projectiles'[Len(projectiles')].id,
                         !.look = [pitch |-> pitch, yaw |-> yaw],
                         !.aimed = lastAim.pose,
                         !.sway = gunSway,
                         !.origin = projectiles'[Len(projectiles')].origin,
                         !.direction = projectiles'[Len(projectiles')].direction]

\* the frame callback, with the pose that lines 227-231 give the camera from the
\* body's translation and the look refs written down
AimedFrame(delta) ==
    /\ FrameCallback(delta)
    /\ lastAim' = IF bodyRef = NULL
                  THEN lastAim
                  ELSE [lastAim EXCEPT
                           !.framed = TRUE,
                           !.pose = [position |-> VAdd(body.translation,
                                                       Vec(0, CAMERA_HEIGHT, 0)),
                                     pitch |-> pitch, yaw |-> yaw]]
    /\ UNCHANGED <<lastPress, lastWalk, lastLook, lastKey, lastContact, lastJump,
                   lastGun, lastClick, firstBody, touching>>

\* handlePointerDown and the interval's callback, with their spawn written down
AimedPointerDown(button, target) ==
    /\ PointerDown(button, target)
    /\ lastAim' = AimAfterSpawn("press")
    /\ UNCHANGED <<lastPress, lastWalk, lastLook, lastKey, lastContact, lastJump,
                   lastGun, lastClick, firstBody, touching>>

AimedIntervalTick(i) ==
    /\ IntervalRuns(i)
    /\ lastAim' = AimAfterSpawn("interval")
    /\ UNCHANGED <<lastPress, lastWalk, lastLook, lastKey, lastContact, lastJump,
                   lastGun, lastClick, firstBody, touching>>

\* a Projectile's expiry timeout, run when it is due: onExpire(id), after which the
\* components of the records no longer in the collection unmount
ProjectileExpires(m) ==
    /\ m.due <= now
    /\ projectiles' = HandleProjectileExpire(projectiles, m.id)
    /\ mounted' = {k \in mounted \ {m} : k.id \in Ids(projectiles')}
    /\ UNCHANGED <<fireIntervalRef, intervals, projectileIdRef, spawnLog, stopMark, hold>>
    /\ UNCHANGED <<keyVars, lifeVars, lookVars, lockVars, bodyVars, jumpVars, now, seenVars>>

ExpireTimeout(m) ==
    /\ ProjectileExpires(m)
    /\ UNCHANGED lastExpire

\* the expiry timeout, with the collection, the id counter and the interval handle
\* before and after written down
ObservedExpireTimeout(m) ==
    /\ ProjectileExpires(m)
    /\ lastExpire' = [seen |-> TRUE, id |-> m.id, live |-> alive, late |-> FALSE,
                      before |-> projectiles, after |-> projectiles',
                      counter |-> <<projectileIdRef, projectileIdRef'>>,
                      timer |-> <<fireIntervalRef, fireIntervalRef'>>]

\* React drops a state update of a component that is no longer mounted (line 60)
ProjectilesAfterSet(live, prev, next) == IF live THEN next ELSE prev

\* an expiry callback run for an id whose Projectile is no longer mounted: its
\* record was removed, or the controller was unmounted, before the callback ran
LateExpire(id) ==
    /\ id < projectileIdRef
    /\ \A m \in mounted : m.id # id
    /\ projectiles' = ProjectilesAfterSet(alive, projectiles,
                                          HandleProjectileExpire(projectiles, id))
    /\ UNCHANGED <<fireIntervalRef, intervals, projectileIdRef, mounted, spawnLog,
                   stopMark, hold>>
    /\ lastExpire' = [seen |-> TRUE, id |-> id, live |-> alive, late |-> TRUE,
                      before |-> projectiles, after |-> projectiles',
                      counter |-> <<projectileIdRef, projectileIdRef'>>,
                      timer |-> <<fireIntervalRef, fireIntervalRef'>>]
    /\ UNCHANGED <<keyVars, lifeVars, lookVars, lockVars, bodyVars, jumpVars, now, seenVars>>

\* ------------------------------------- mount and unmount of the controller
ListenersAfterUnmountKeepsMove(ls) == ls \cap {"pointermove"}

\* lines 153-156, 179-182, 213-220 and the end of the useFrame subscription
ListenersAfterUnmount(ls) == {}

\* the cleanups of the three effects; the rigid body, the weapon group and the
\* Projectile children unmount with the controller, the children clearing their
\* expiry timeouts (line 341)
Unmount ==
    /\ alive
    /\ alive' = FALSE
    /\ listeners' = ListenersAfterUnmount(listeners)
    /\ StopAutoFire
    /\ stopMark' = Len(spawnLog)
    /\ hold' = NoHold
    /\ bodyRef' = NULL
    /\ gunRef' = NULL
    /\ unmounted' = [yaw |-> yaw, pitch |-> pitch,
                     jumpRequested |-> jumpRequested, spawns |-> Len(spawnLog),
                     interval |-> fireIntervalRef,
                     locked |-> pointerLockElement = CANVAS]
    /\ lateEvent' = FALSE
    /\ mounted' = {}
    /\ UNCHANGED <<projectileIdRef, projectiles, spawnLog, lastExpire>>
    /\ UNCHANGED <<instance, second, scenery, paced, body, camera, gunSway, gun, lastFrame>>
    /\ UNCHANGED <<keyVars, lookVars, lockVars, jumpVars, now, seenVars>>

KeyStateAfterMountFresh(ks) == [f \in Flags |-> FALSE]

\* lines 32-38: the key-state record is created when the module loads, not on mount
KeyStateAfterMount(ks) == ks

\* a new controller instance mounts: fresh refs and state (lines 51-60, 68), the
\* effects register their listeners (lines 151-152, 176-177, 207-211)
Remount ==
    /\ ~alive
    /\ instance < MaxInstances
    /\ alive' = TRUE
    /\ instance' = instance + 1
    /\ listeners' = AllListeners
    /\ keyState' = KeyStateAfterMount(keyState)
    /\ yaw' = 0
    /\ pitch' = 0
    /\ contactCount' = 0
    /\ jumpRequested' = FALSE
    /\ fireIntervalRef' = NoHandle
    /\ projectileIdRef' = 0
    /\ projectiles' = <<>>
    /\ gunSway' = ZeroVec
    /\ body' = [translation |-> BODY_START, linvel |-> ZeroVec, angvel |-> ZeroVec]
    /\ spawnLog' = <<>>
    /\ stopMark' = -1
    /\ hold' = NoHold
    /\ lastExpire' = NoExpire
    /\ lastPress' = NoPress
    /\ lastWalk' = NoWalk
    /\ lastLook' = NoLook
    /\ lastKey' = NoKey
    /\ lastContact' = NoContact
    /\ lastJump' = NoJump
    /\ lastGun' = NoGun
    /\ lastClick' = NoClick
    /\ firstBody' = NoFirstBody
    /\ touching' = {}
    /\ lastAim' = [NoAim EXCEPT !.pose = camera]
    /\ lastFrame' = NoFrame
    /\ impulsesSinceDown' = 0
    /\ unmounted' = NeverUnmounted
    /\ lateEvent' = FALSE
    /\ UNCHANGED <<downIn, second, scenery, paced, invertY, mirror, lastPointerMove>>
    /\ UNCHANGED <<lockVars, bodyRef, gunRef, camera, gun, spaceDowns, impulses>>
    /\ UNCHANGED <<intervals, mounted, now>>

\* another controller instance mounts beside this one, or unmounts: it has its own
\* refs and state; the key-state record is the module's (lines 32-38)
MountSecond ==
    /\ ~second
    /\ second' = TRUE
    /\ keyState' = KeyStateAfterMount(keyState)
    /\ UNCHANGED <<downIn, listeners, instance, alive, unmounted, lateEvent, scenery, paced>>
    /\ UNCHANGED <<lookVars, lockVars, bodyVars, jumpVars, fireVars, now, seenVars>>

UnmountSecond ==
    /\ second
    /\ second' = FALSE
    /\ UNCHANGED <<listeners, instance, alive, unmounted, lateEvent, scenery, paced>>
    /\ UNCHANGED <<keyVars, lookVars, lockVars, bodyVars, jumpVars, fireVars, now, seenVars>>

\* the browser dispatches a device event no listener is registered for
UnheardEvent(name) ==
    /\ ~Listening(name)
    /\ ~second
    /\ lateEvent' = TRUE
    /\ UNCHANGED <<listeners, instance, alive, second, unmounted, scenery, paced>>
    /\ UNCHANGED <<keyVars, lookVars, lockVars, bodyVars, jumpVars, fireVars, now, seenVars>>

\* The clock is observed at the instants timers can be due at when presses come
\* at multiples of the auto-fire interval, and one millisecond before and after
OnGrid(t) ==
    \/ t % AUTO_FIRE_INTERVAL_MS = 0
    \/ t % AUTO_FIRE_INTERVAL_MS = PROJECTILE_LIFETIME_MS % AUTO_FIRE_INTERVAL_MS
Instant(t) == OnGrid(t) \/ OnGrid(t + 1) \/ (t > 0 /\ OnGrid(t - 1))
NextInstant(t) ==
    CHOOSE u \in (t + 1)..(t + AUTO_FIRE_INTERVAL_MS) :
        Instant(u) /\ \A w \in (t + 1)..(u - 1) : ~Instant(w)
\* the instants at which a press is tried
PressInstant(t) == t % AUTO_FIRE_INTERVAL_MS = 0

\* time passes, never past a timer that is due
Advance(limit) ==
    /\ now < limit
    /\ \A i \in intervals : i.due > now
    /\ \A m \in mounted : m.due > now
    /\ now' = NextInstant(now)
    /\ UNCHANGED <<keyVars, lifeVars, lookVars, lockVars, bodyVars, jumpVars, fireVars>>
    /\ UNCHANGED seenVars

Tick == Advance(MaxTime)

\* ------------------------------ scenery placement (SceneryCluster.tsx)
\* 32-bit words are kept as two 16-bit halves
Half == 2^16
TAU == 62832
MAX_RAY_HEIGHT == 200000

RECURSIVE BitXor(_, _, _)
\* the exclusive or of the low n bits of a and b
BitXor(a, b, n) ==
    IF n = 0 THEN 0 ELSE ((a + b) % 2) + 2 * BitXor(a \div 2, b \div 2, n - 1)

RECURSIVE BitOr(_, _, _)
\* the inclusive or of the low n bits of a and b
BitOr(a, b, n) ==
    IF n = 0 THEN 0 ELSE Max(a % 2, b % 2) + 2 * BitOr(a \div 2, b \div 2, n - 1)

Word(h, l) == [hi |-> h, lo |-> l]
\* a ^ b
Xor32(a, b) == Word(BitXor(a.hi, b.hi, 16), BitXor(a.lo, b.lo, 16))
\* a | k, for k below 2^16
Or32(a, k) == Word(a.hi, BitOr(a.lo, k, 16))
\* a >>> n, for n below 16
Shr32(a, n) == Word(a.hi \div (2^n), (a.lo \div (2^n)) + (a.hi % (2^n)) * (2^(16 - n)))
\* (a + b) modulo 2^32
Add32(a, b) ==
    Word((a.hi + b.hi + ((a.lo + b.lo) \div Half)) % Half, (a.lo + b.lo) % Half)
\* the low 16 bits of x * y, and the bits above them, for x, y below 2^16
MulLow16(x, y) == (x * (y % 256) + ((x * (y \div 256)) % 256) * 256) % Half
MulHigh16(x, y) ==
    ((x * (y \div 256)) \div 256)
        + ((x * (y % 256) + ((x * (y \div 256)) % 256) * 256) \div Half)
\* Math.imul(a, b): the low 32 bits of the product
Imul32(a, b) ==
    Word((MulHigh16(a.lo, b.lo) + MulLow16(a.hi, b.lo) + MulLow16(a.lo, b.hi)) % Half,
         MulLow16(a.lo, b.lo))

\* line 37: seed >>> 0, for a seed that is a non-negative integer below 2^31
SeedState(seed) == Word(seed \div Half, seed % Half)
\* line 40: state += 0x6d2b79f5, read modulo 2^32 by the bit operations after it
AdvanceState(state) == Add32(state, Word(27947, 31221))
\* line 42
Scramble1(t) == Imul32(Xor32(t, Shr32(t, 15)), Or32(t, 1))
\* line 43
Scramble2(t) == Xor32(t, Add32(t, Imul32(Xor32(t, Shr32(t, 7)), Or32(t, 61))))
\* line 44: the number in [0, 1) returned, in thousandths, from the word's high half
RandomOf(state) ==
    (Xor32(Scramble2(Scramble1(state)), Shr32(Scramble2(Scramble1(state)), 14)).hi * Milli)
        \div Half

RECURSIVE StateAfter(_, _)
\* the generator's state after k calls, from the state it started in
StateAfter(start, k) == IF k = 0 THEN start ELSE AdvanceState(StateAfter(start, k - 1))
\* what the k-th call returns
Draw(start, k) == RandomOf(StateAfter(start, k))

\* Math.sin and Math.cos of an angle in [0, TAU), in thousandths
SinTurn(a) ==
    IF 4 * a <= TAU THEN SinMilli(a)
    ELSE IF 4 * a <= 3 * TAU THEN SinMilli((TAU \div 2) - a)
    ELSE SinMilli(a - TAU)
CosTurn(a) ==
    IF 4 * a <= TAU THEN CosMilli(a)
    ELSE IF 4 * a <= 3 * TAU THEN -CosMilli(a - (TAU \div 2))
    ELSE CosMilli(a - TAU)

\* line 62, count in thousandths
NormalizedCount(count) == Max(0, count \div Milli)
ClampedRadiusRaw(radius) == radius

\* line 63
ClampedRadius(radius) == Max(0, radius)
\* lines 71-72
CenterX(center) == center[1]
CenterZ(center) == IF Len(center) = 3 THEN center[3] ELSE center[2]
\* lines 80-84
GroundMeshes(scene) == {o \in scene : o.isGround}
\* lines 96-99: the heights at which the ray down from maxRayHeight, no longer than
\* twice maxRayHeight, meets the meshes at x, z
Intersections(meshes, x, z) ==
    {o.height : o \in {m \in meshes : /\ m.minX <= x /\ x <= m.maxX
                                      /\ m.minZ <= z /\ z <= m.maxZ
                                      /\ m.height <= MAX_RAY_HEIGHT
                                      /\ m.height >= -MAX_RAY_HEIGHT}}
PositionYLowest(meshes, x, z) ==
    IF meshes # {} /\ Intersections(meshes, x, z) # {}
    THEN CHOOSE h \in Intersections(meshes, x, z) :
            \A g \in Intersections(meshes, x, z) : g >= h
    ELSE 0

\* lines 93-103: intersections come nearest first, the nearest to a ray going down
\* being the highest
PositionY(meshes, x, z) ==
    IF meshes # {} /\ Intersections(meshes, x, z) # {}
    THEN CHOOSE h \in Intersections(meshes, x, z) :
            \A g \in Intersections(meshes, x, z) : g <= h
    ELSE 0
\* lines 87-88
AngleOf(r) == (r * TAU) \div Milli
DistanceOf(r, radius) == MulMilli(ISqrt(r * Milli), radius)
\* lines 87-112: one placement from its three draws
PlacementOf(r1, r2, r3, cx, cz, radius, meshes) ==
    [position |-> Vec(cx + MulMilli(CosTurn(AngleOf(r1)), DistanceOf(r2, radius)),
                      PositionY(meshes,
                                cx + MulMilli(CosTurn(AngleOf(r1)), DistanceOf(r2, radius)),
                                cz + MulMilli(SinTurn(AngleOf(r1)), DistanceOf(r2, radius))),
                      cz + MulMilli(SinTurn(AngleOf(r1)), DistanceOf(r2, radius))),
     rotation |-> Vec(0, AngleOf(r3), 0)]
\* the generator run once per instance wanted before the first instance is placed
PlacementsFromCounted(start, props, scene) ==
    [i \in 1..NormalizedCount(props.count) |->
        PlacementOf(Draw(start, NormalizedCount(props.count) + 3 * i - 2),
                    Draw(start, NormalizedCount(props.count) + 3 * i - 1),
                    Draw(start, NormalizedCount(props.count) + 3 * i),
                    CenterX(props.center), CenterZ(props.center),
                    ClampedRadius(props.radius), GroundMeshes(scene))]

\* lines 73 and 109: the keys of n instances, the component's name and the index
KeysOf(n) == [i \in 1..n |-> <<"Scenery", i - 1>>]

\* lines 65-114, from the state the generator starts in
PlacementsFrom(start, props, scene) ==
    [i \in 1..NormalizedCount(props.count) |->
        PlacementOf(Draw(start, 3 * i - 2), Draw(start, 3 * i - 1), Draw(start, 3 * i),
                    CenterX(props.center), CenterZ(props.center),
                    ClampedRadius(props.radius), GroundMeshes(scene))]

\* props and scenes the cluster is rendered with: seeds; counts and radii in
\* thousandths; centers of two and of three components; scenes as sets of boxes
\* seen from above, each with the height of its top
Seeds == {1, 12345}
Counts == {-1000, 0, 500, 1000, 2700, 3000}
Radii == {-2000, 0, 6000}
Centers == {<<0, 0>>, <<5000, 99000, -3000>>}
Box(ground, x0, x1, z0, z1, h) ==
    [isGround |-> ground, minX |-> x0, maxX |-> x1, minZ |-> z0, maxZ |-> z1,
     height |-> h]
Scenes ==
    {{},
     {Box(FALSE, -24000, 24000, -24000, 24000, 2500)},
     {Box(TRUE, -24000, 5000, -24000, 24000, 500)},
     {Box(TRUE, -24000, 3000, -24000, 24000, 500), Box(TRUE, -2000, 2000, -2000, 2000, 1500),
      Box(TRUE, -24000, 24000, -24000, 24000, 300000),
      Box(FALSE, -24000, 24000, -24000, 24000, 2500)}}

NoProps == [seed |-> 1, count |-> 0, radius |-> 0, center |-> <<0, 0>>]
NoScenery == [runs |-> 0, props |-> NoProps, scene |-> {}, placements |-> <<>>,
              keys |-> <<>>,
              left |-> Word(0, 0), before |-> <<>>]

GeneratorStartShared(seed, left) == left

\* line 70: each computation makes its own generator from the seed
GeneratorStart(seed, left) == SeedState(seed)

\* lines 65-114: the placements computation, run for props and a scene; runs
\* counts the computations made in a row for the same props and scene, left is
\* the state the last generator was left in
Compute(props, scene, runs, before) ==
    /\ scenery' =
          [runs |-> runs, props |-> props, scene |-> scene,
           placements |-> PlacementsFrom(GeneratorStart(props.seed, scenery.left),
                                         props, scene),
           keys |-> KeysOf(NormalizedCount(props.count)),
           left |-> StateAfter(GeneratorStart(props.seed, scenery.left),
                               3 * NormalizedCount(props.count)),
           before |-> before]
    /\ UNCHANGED <<listeners, instance, alive, second, unmounted, lateEvent, paced>>
    /\ UNCHANGED <<keyVars, lookVars, lockVars, bodyVars, jumpVars, fireVars, now, seenVars>>

\* the cluster is first rendered, with props and in a scene
RenderCluster(props, scene) ==
    /\ scenery.runs = 0
    /\ Compute(props, scene, 1, <<>>)

\* the cluster is rendered with another seed
ChangeSeed(seed) ==
    /\ scenery.runs > 0
    /\ seed # scenery.props.seed
    /\ Compute([scenery.props EXCEPT !.seed = seed], scenery.scene, 1, <<>>)

\* the computation is made again for the same props and scene (a dependency of
\* line 114 changed identity, or the cluster was mounted again)
RenderAgain ==
    /\ scenery.runs = 1
    /\ Compute(scenery.props, scenery.scene, 2, scenery.placements)

\* the cluster is rendered with another count, the placements it had kept for
\* comparison
ChangeCount(count) ==
    /\ scenery.runs > 0
    /\ NormalizedCount(count) # NormalizedCount(scenery.props.count)
    /\ Compute([scenery.props EXCEPT !.count = count], scenery.scene, 1,
               scenery.placements)

\* ------------------------------------- the sway update at two frame rates
\* the frame deltas of the two runs (ms) and the velocities held
PacedDeltas == [a |-> 16, b |-> 32]
HeldVelocities == {Vec(0, 0, -MOVE_SPEED), Vec(3182, -JUMP_VY_THRESHOLD, 3182)}
NoPace == [held |-> FALSE, velocity |-> ZeroVec,
           a |-> [sway |-> ZeroVec, elapsed |-> 0],
           b |-> [sway |-> ZeroVec, elapsed |-> 0]]

\* the body moves at a velocity that stays as it is
HoldVelocity(v) ==
    /\ ~paced.held
    /\ paced' = [paced EXCEPT !.held = TRUE, !.velocity = v]
    /\ UNCHANGED <<listeners, instance, alive, second, unmounted, lateEvent, scenery>>
    /\ UNCHANGED <<keyVars, lookVars, lockVars, bodyVars, jumpVars, fireVars, now, seenVars>>

\* lines 261-263 in a frame of the run's delta
PacedFrame(run) ==
    /\ paced.held
    /\ paced[run].elapsed + PacedDeltas[run] <= MaxPace
    /\ paced' = [paced EXCEPT
                    ![run] = [sway |-> Lerp(paced[run].sway, SwayTarget(paced.velocity),
                                            LerpFactor(PacedDeltas[run])),
                              elapsed |-> paced[run].elapsed + PacedDeltas[run]]]
    /\ UNCHANGED <<listeners, instance, alive, second, unmounted, lateEvent, scenery>>
    /\ UNCHANGED <<keyVars, lookVars, lockVars, bodyVars, jumpVars, fireVars, now, seenVars>>

\* ----------------------------------------------------------------- Init
Init ==
    /\ keyState = [forward |-> FALSE, backward |-> FALSE, left |-> FALSE,
                   right |-> FALSE, jump |-> FALSE]
    /\ downIn = [f \in Flags |-> 0]
    /\ listeners = AllListeners
    /\ instance = 1
    /\ alive = TRUE
    /\ second = FALSE
    /\ scenery = NoScenery
    /\ paced = NoPace
    /\ unmounted = NeverUnmounted
    /\ lateEvent = FALSE
    /\ lastExpire = NoExpire
    /\ lastPress = NoPress
    /\ lastWalk = NoWalk
    /\ lastLook = NoLook
    /\ lastKey = NoKey
    /\ lastContact = NoContact
    /\ lastJump = NoJump
    /\ lastGun = NoGun
    /\ lastClick = NoClick
    /\ firstBody = NoFirstBody
    /\ touching = {}
    /\ invertY = FALSE
    /\ yaw = 0
    /\ pitch = 0
    /\ mirror = [yaw |-> 0, pitch |-> 0]
    /\ lastPointerMove = [locked |-> FALSE, mine |-> 0, mirror |-> 0]
    /\ pointerLockElement = NULL
    /\ lockRequests = FALSE
    /\ bodyRef = NULL
    /\ gunRef = NULL
    /\ body = [translation |-> BODY_START, linvel |-> ZeroVec, angvel |-> ZeroVec]
    /\ camera = [position |-> Vec(7000, 6000, 10000), pitch |-> -4568, yaw |-> 6107]
    /\ lastAim = [NoAim EXCEPT !.pose = camera]
    /\ gunSway = ZeroVec
    /\ gun = [position |-> ZeroVec, pitch |-> 0, yaw |-> 0]
    /\ lastFrame = NoFrame
    /\ contactCount = 0
    /\ jumpRequested = FALSE
    /\ spaceDowns = 0
    /\ impulses = 0
    /\ impulsesSinceDown = 0
    /\ fireIntervalRef = NoHandle
    /\ intervals = {}
    /\ projectileIdRef = 0
    /\ projectiles = <<>>
    /\ mounted = {}
    /\ spawnLog = <<>>
    /\ stopMark = -1
    /\ hold = NoHold
    /\ now = 0

\* ------------------------------------------------------- specifications
KeyEvents ==
    \/ \E code \in KeyCodes, repeat \in BOOLEAN : OnKeyDown(code, repeat)
    \/ \E code \in KeyCodes : OnKeyUp(code)

LockEvents ==
    \/ HandleClick
    \/ \E element \in {NULL, CANVAS} : HandlePointerLockChange(element)

FireEvents ==
    \/ /\ PressInstant(now)
       /\ \E button \in Buttons, target \in Targets : HandlePointerDown(button, target)
    \/ \E button \in Buttons : HandlePointerUp(button)
    \/ PointerCancel
    \/ PointerLeave

TimerEvents ==
    \/ \E i \in intervals : IntervalTick(i)
    \/ \E m \in mounted : ExpireTimeout(m)
    \/ Tick

Next ==
    \/ KeyEvents
    \/ LockEvents
    \/ \E checked \in BOOLEAN : SetInvertMouseY(checked)
    \/ \E mx \in MovementXs, my \in MovementYs : HandlePointerMove(mx, my)
    \/ OnCollisionEnter
    \/ OnCollisionExit
    \/ MountBody
    \/ MountGun
    \/ \E p \in Positions, vy \in VySamples, w \in {ZeroVec, Vec(0, Milli, 0)} :
          PhysicsStep(p, vy, w)
    \/ \E delta \in Deltas : Frame(delta)
    \/ FireEvents
    \/ TimerEvents
    \/ \E id \in 0..(MaxSpawns - 1) : LateExpire(id)
    \/ Unmount
    \/ Remount
    \/ MountSecond
    \/ UnmountSecond
    \/ \E code \in KeyCodes, repeat \in BOOLEAN : SecondKeyDown(code, repeat)
    \/ \E code \in KeyCodes : SecondKeyUp(code)
    \/ \E name \in DeviceEvents : UnheardEvent(name)

Spec == Init /\ [][Next]_vars

\* the jump machine: Space and an unrecognized key, contacts, physics, frames
NextJump ==
    \/ \E code \in JumpCodes, repeat \in BOOLEAN : OnKeyDown(code, repeat)
    \/ \E code \in JumpCodes : OnKeyUp(code)
    \/ OnCollisionEnter
    \/ OnCollisionExit
    \/ MountBody
    \/ \E vy \in VySamples : PhysicsStep(BODY_START, vy, ZeroVec)
    \/ \E delta \in {16} : Frame(delta)

SpecJump == Init /\ [][NextJump]_vars

\* mouse look: lock, unlock and pointer moves
NextLook ==
    \/ LockEvents
    \/ \E checked \in BOOLEAN : SetInvertMouseY(checked)
    \/ \E mx \in MovementXs, my \in MovementYs : HandlePointerMove(mx, my)

SpecLook == Init /\ [][NextLook]_vars

\* movement: the four movement keys, yaw, physics, frames
NextMove ==
    \/ \E code \in MoveCodes, repeat \in BOOLEAN : OnKeyDown(code, repeat)
    \/ \E code \in MoveCodes : OnKeyUp(code)
    \/ LockEvents
    \/ \E mx \in MovementXs : HandlePointerMove(mx, 0)
    \/ MountBody
    \/ \E vy \in {-JUMP_VY_THRESHOLD, 0, JUMP_VY_THRESHOLD} :
          PhysicsStep(BODY_START, vy, ZeroVec)
    \/ \E delta \in {16} : Frame(delta)

SpecMove == Init /\ [][NextMove]_vars

\* firing: presses, stop events, the interval, the expiry timeouts, the clock
NextFire ==
    \/ LockEvents
    \/ FireEvents
    \/ TimerEvents

SpecFire == Init /\ [][NextFire]_vars

\* ------------------------------------------------------------ properties
UpwardImpulse == Vec(0, JUMP_IMPULSE, 0)

\* C1: on every frame that runs with a body handle the upward impulse is applied
\* exactly when a request is pending, the contact counter is above 0 and the
\* vertical speed read is below 0.2; never with the contact counter at 0.
C1_JumpGating ==
    lastFrame.hadBody =>
        /\ lastFrame.impulse \in {ZeroVec, UpwardImpulse}
        /\ lastFrame.impulse = UpwardImpulse <=>
              (lastFrame.requested /\ lastFrame.contacts > 0
                  /\ -200 < lastFrame.readVy /\ lastFrame.readVy < 200)
        /\ lastFrame.contacts = 0 => lastFrame.impulse = ZeroVec
        /\ lastFrame.vyAfter = lastFrame.readVy + lastFrame.impulse.y

C1_Witness ==
    /\ lastFrame.hadBody
    /\ lastFrame.impulse = UpwardImpulse
    /\ lastFrame.contacts > 1
    /\ lastFrame.readVy = -199

\* C2: the impulses applied never outnumber the non-repeat Space key-downs, and
\* between two non-repeat Space key-downs at most one impulse is applied,
\* however long Space is held and however many repeat key-downs arrive.
C2_OneImpulsePerKeyDown ==
    /\ impulses <= spaceDowns
    /\ impulsesSinceDown <= 1
    /\ spaceDowns = 0 => impulsesSinceDown = 0

C2_Witness ==
    /\ spaceDowns > 1
    /\ impulses = spaceDowns
    /\ keyState.jump
    /\ lastFrame.hadBody /\ lastFrame.contacts > 0 /\ lastFrame.readVy = 0
    /\ lastFrame.impulse = ZeroVec

\* C3 as stated: after every invocation of the frame callback the jump request
\* flag is false.
C3_ClearedAfterEveryFrame == lastFrame.called => ~lastFrame.requestAfter

\* C3 amended: after every invocation of the frame callback that runs with a body
\* handle the jump request flag is false, whether or not the impulse fired.
C3_ClearedAfterBodyFrame ==
    (lastFrame.called /\ lastFrame.hadBody) => ~lastFrame.requestAfter

C3_Witness ==
    /\ lastFrame.hadBody
    /\ lastFrame.requested
    /\ lastFrame.impulse = ZeroVec
    /\ ~lastFrame.requestAfter
    /\ ~jumpRequested

\* C4: the stored pitch stays within [-MAX_PITCH, MAX_PITCH] after any sequence of
\* pointer moves, locked or not, with either invertY setting.
C4_PitchClamped ==
    /\ -MAX_PITCH <= pitch /\ pitch <= MAX_PITCH
    /\ -MAX_PITCH <= mirror.pitch /\ mirror.pitch <= MAX_PITCH

C4_Witness ==
    /\ pitch = -MAX_PITCH
    /\ mirror.pitch = MAX_PITCH
    /\ lastPointerMove.locked
    /\ Abs(lastPointerMove.mine) > MAX_PITCH

\* C5: fed the same pointer moves, the controller with invertY and the one
\* without apply negated pitch deltas at every step, hold negated pitch values
\* and hold equal yaw values.
C5_InvertSymmetry ==
    /\ lastPointerMove.mine = -lastPointerMove.mirror
    /\ pitch = -mirror.pitch
    /\ yaw = mirror.yaw

C5_Witness ==
    /\ lastPointerMove.locked
    /\ lastPointerMove.mine > 0
    /\ pitch < 0
    /\ pitch > -MAX_PITCH
    /\ yaw # 0

\* C6: on a frame in which no impulse fires, the vertical component written to
\* the body is the one read from it in that frame, and the body keeps it, for
\* every combination of held movement keys and every yaw.
C6_VerticalIsolation ==
    (lastFrame.hadBody /\ lastFrame.impulse = ZeroVec) =>
        /\ lastFrame.wrote.y = lastFrame.readVy
        /\ lastFrame.vyAfter = lastFrame.readVy

C6_Witness ==
    /\ lastFrame.hadBody
    /\ lastFrame.impulse = ZeroVec
    /\ lastFrame.readVy < 0
    /\ lastFrame.wrote.x # 0
    /\ lastFrame.wrote.z # 0
    /\ camera.yaw # 0
    /\ keyState.forward /\ keyState.left

\* number of records of the active collection that carry the id
CountId(ps, id) == Cardinality({i \in 1..Len(ps) : ps[i].id = id})

\* C7: each spawn adds exactly one record; the record is present at every instant
\* strictly before 2400 ms after the spawn and gone at every instant after it,
\* whatever other projectiles were spawned or expired in between.
C7_ProjectileLifetime ==
    /\ \A i \in 1..Len(spawnLog) :
          LET e == spawnLog[i]
          IN  /\ now < e.at + 2400 => CountId(projectiles, e.id) = 1
              /\ now > e.at + 2400 => CountId(projectiles, e.id) = 0
              /\ CountId(projectiles, e.id) <= 1
    /\ \A k \in 1..Len(projectiles) :
          \E i \in 1..Len(spawnLog) : spawnLog[i].id = projectiles[k].id

C7_Witness ==
    \E i, j \in 1..Len(spawnLog) :
        /\ now = spawnLog[i].at + 2401
        /\ CountId(projectiles, spawnLog[i].id) = 0
        /\ spawnLog[j].at > spawnLog[i].at
        /\ CountId(projectiles, spawnLog[j].id) = 1

\* C8: after a primary-button release, a pointer cancel, a pointer leave or a loss
\* of pointer lock, and until the next qualifying press, no interval is live, the
\* interval ref is empty and no projectile has been spawned.
C8_AutoFireStopped ==
    stopMark # -1 =>
        /\ intervals = {}
        /\ fireIntervalRef = NoHandle
        /\ Len(spawnLog) = stopMark

C8_Witness ==
    /\ stopMark > 1
    /\ spawnLog[stopMark].cause = "interval"
    /\ now > spawnLog[stopMark].at + 250

\* the spawns since the press that started the running interval
SinceHold == SubSeq(spawnLog, hold.base + 1, Len(spawnLog))
TicksSinceHold == SelectSeq(SinceHold, LAMBDA e : e.cause = "interval")
PressesSinceHold == SelectSeq(SinceHold, LAMBDA e : e.cause = "press")

\* C9: while a qualifying press is held with no stop event, the press spawned one
\* projectile at once and the interval has spawned one more per elapsed 250 ms,
\* the k-th of them exactly k x 250 ms after the press, and none in between.
C9_AutoFireRate ==
    hold # NoHold =>
        LET elapsed == now - hold.at
            pending == \E i \in intervals : i.due <= now
            n == IF pending THEN elapsed \div 250 - 1 ELSE elapsed \div 250
        IN  /\ Len(SinceHold) >= 1
            /\ SinceHold[1].cause = "press" /\ SinceHold[1].at = hold.at
            /\ Len(TicksSinceHold) = n
            /\ \A k \in 1..Len(TicksSinceHold) : TicksSinceHold[k].at = hold.at + k * 250
            /\ Len(PressesSinceHold) = 1 => Len(SinceHold) = 1 + n

C9_Witness ==
    /\ hold # NoHold
    /\ now = hold.at + 2 * 250 + 1
    /\ Len(PressesSinceHold) = 1
    /\ Len(SinceHold) = 3

\* C10: every spawn gets an id above the id of every earlier spawn, so the records
\* of the active collection carry distinct ids and no id comes back after its
\* projectile expired.
C10_IdsIncrease ==
    /\ \A i, j \in 1..Len(spawnLog) : i < j => spawnLog[i].id < spawnLog[j].id
    /\ \A i, j \in 1..Len(projectiles) : i # j => projectiles[i].id # projectiles[j].id
    /\ \A i \in 1..Len(spawnLog) : spawnLog[i].id < projectileIdRef

C10_Witness ==
    \E i, j \in 1..Len(spawnLog) :
        /\ i < j
        /\ spawnLog[j].at >= spawnLog[i].at + 2400
        /\ CountId(projectiles, spawnLog[i].id) = 0
        /\ CountId(projectiles, spawnLog[j].id) = 1

\* the press-and-release machine: lock, presses of either button on either
\* target, releases
NextPress ==
    \/ LockEvents
    \/ \E button \in Buttons, target \in Targets : ObservedPointerDown(button, target)
    \/ \E button \in Buttons : HandlePointerUp(button)

SpecPress == Init /\ [][NextPress]_vars

\* C11: a pointer-down adds exactly one record to the spawns when its button is 0
\* and the canvas holds the lock or is the target of the press, and none otherwise;
\* a press that adds none starts no interval.
C11_FireTrigger ==
    lastPress.seen =>
        /\ lastPress.spawned =
              IF lastPress.button = 0 /\ (lastPress.locked \/ lastPress.target = CANVAS)
              THEN 1 ELSE 0
        /\ lastPress.spawned = 0 => lastPress.started = 0

\* a press on the canvas made without the lock spawned one projectile
C11_Witness ==
    /\ lastPress.seen
    /\ lastPress.button = 0
    /\ ~lastPress.locked
    /\ lastPress.target = CANVAS
    /\ lastPress.spawned = 1
    /\ Len(projectiles) = 2

\* walking: the forward and left keys, yaw, physics, observed frames
NextWalk ==
    \/ \E code \in {"KeyW", "KeyA"} : OnKeyDown(code, FALSE)
    \/ \E code \in {"KeyW", "KeyA"} : OnKeyUp(code)
    \/ LockEvents
    \/ \E mx \in {-150, 150} : HandlePointerMove(mx, 0)
    \/ MountBody
    \/ \E vy \in {-JUMP_VY_THRESHOLD, 0} : PhysicsStep(BODY_START, vy, ZeroVec)
    \/ \E delta \in {16} : ObservedFrame(delta)

SpecWalk == Init /\ [][NextWalk]_vars

\* C12: a frame that runs at yaw 0 with only the forward key held hands setLinvel
\* x = 0 and z = -4.5; the frame after such a frame that finds no movement key held
\* hands it x = 0 and z = 0; both hand it the vertical component they read.
C12_MovementScenario ==
    (lastWalk.seen /\ lastWalk.yaw = 0) =>
        /\ lastWalk.held = "forward" => lastWalk.wrote = Vec(0, lastWalk.readVy, -4500)
        /\ (lastWalk.afterForward /\ lastWalk.held = "none") =>
              lastWalk.wrote = Vec(0, lastWalk.readVy, 0)

\* the frame after a forward hold at yaw 0 found the key released, mid-fall
C12_Witness ==
    /\ lastWalk.seen
    /\ lastWalk.yaw = 0
    /\ lastWalk.afterForward
    /\ lastWalk.held = "none"
    /\ lastWalk.readVy = -200
    /\ body.linvel = Vec(0, -200, 0)

\* frames before and after the body and the weapon mount: Space, contacts, the
\* engine moving and spinning the body, observed frames
NextSkip ==
    \/ OnKeyDown("Space", FALSE)
    \/ OnKeyUp("Space")
    \/ OnCollisionEnter
    \/ OnCollisionExit
    \/ MountBody
    \/ MountGun
    \/ \E p \in Positions : PhysicsStep(p, 0, Vec(0, Milli, 0))
    \/ \E delta \in Deltas : ObservedFrame(delta)

SpecSkip == Init /\ [][NextSkip]_vars

\* C14: a frame that runs while the body handle is missing leaves the body, the
\* camera, the sway and the weapon as they were and applies no impulse; a frame
\* that runs with the handle, also the first one after frames without it, sets the
\* camera, the horizontal velocity and the angular velocity.
C14_MissingBodySkips ==
    /\ lastWalk.skipped => lastWalk.untouched
    /\ (lastWalk.seen /\ ~lastWalk.skipped) => lastWalk.full

\* the frame after a frame without the handle ran the update: the camera sits on
\* the body, the spin the engine gave the body is gone, the weapon has moved
C14_Witness ==
    /\ lastWalk.seen
    /\ lastWalk.afterSkip
    /\ ~lastWalk.skipped
    /\ lastWalk.untouched
    /\ camera.position = VAdd(body.translation, Vec(0, CAMERA_HEIGHT, 0))
    /\ body.angvel = ZeroVec
    /\ gunRef = GUN
    /\ gun.position # ZeroVec
    /\ impulses = 1

\* the controller's lifetime: lock, a look move, Space, presses and stop events,
\* the interval and the clock, the unmount, device events nobody listens to
NextUnmount ==
    \/ LockEvents
    \/ HandlePointerMove(150, 500)
    \/ OnKeyDown("Space", FALSE)
    \/ /\ PressInstant(now)
       /\ HandlePointerDown(0, CANVAS)
    \/ HandlePointerUp(0)
    \/ \E i \in intervals : IntervalTick(i)
    \/ /\ now < MaxLifeTime
       /\ Tick
    \/ Unmount
    \/ \E name \in DeviceEvents : UnheardEvent(name)

SpecUnmount == Init /\ [][NextUnmount]_vars

\* C13: while the controller is unmounted no listener of it is registered, no
\* interval is live, and the yaw, the pitch, the jump request and the number of
\* spawns are what they were when it unmounted, whatever device events and clock
\* ticks came since.
C13_UnmountCleanup ==
    ~alive =>
        /\ listeners = {}
        /\ intervals = {}
        /\ fireIntervalRef = NoHandle
        /\ yaw = unmounted.yaw
        /\ pitch = unmounted.pitch
        /\ jumpRequested = unmounted.jumpRequested
        /\ Len(spawnLog) = unmounted.spawns

\* unmounted with the lock held and the auto-fire interval running; since then a
\* device event came and the interval's next run would have been due
C13_Witness ==
    /\ ~alive
    /\ lateEvent
    /\ unmounted.interval # NoHandle
    /\ unmounted.locked
    /\ pointerLockElement = CANVAS
    /\ unmounted.jumpRequested
    /\ unmounted.yaw # 0
    /\ now > spawnLog[Len(spawnLog)].at + AUTO_FIRE_INTERVAL_MS

\* late expiry: one press at time 0, its release, the timers, the unmount, expiry
\* callbacks run for projectiles that are gone
NextLate ==
    \/ /\ now = 0
       /\ HandlePointerDown(0, CANVAS)
    \/ HandlePointerUp(0)
    \/ TimerEvents
    \/ Unmount
    \/ \E id \in 0..(MaxSpawns - 1) : LateExpire(id)

SpecLate == Init /\ [][NextLate]_vars

\* C15: an expiry callback run for an id whose projectile is gone, with the
\* controller mounted or unmounted, leaves the collection exactly as it was: the
\* same records in the same order.
C15_LateExpiryNoOp ==
    lastExpire.seen => lastExpire.after = lastExpire.before

\* the callback ran late, with the controller mounted, while two younger
\* projectiles were active
C15_Witness ==
    /\ lastExpire.seen
    /\ lastExpire.live
    /\ Len(lastExpire.before) = 2
    /\ \A i \in 1..2 : lastExpire.before[i].id > lastExpire.id
    /\ Len(projectiles) = 2

\* look gating: lock and unlock, the invertY setting, frames, observed pointer moves
NextGate ==
    \/ LockEvents
    \/ \E checked \in BOOLEAN : SetInvertMouseY(checked)
    \/ MountBody
    \/ \E delta \in {16} : Frame(delta)
    \/ \E mx \in {-150, 150}, my \in {-500, 500} : ObservedPointerMove(mx, my)

SpecGate == Init /\ [][NextGate]_vars

\* C16: a pointer move received while the canvas does not hold the lock leaves
\* the yaw and the pitch as they were; one received while it holds the lock takes
\* movementX x 0.0035 off the yaw; and no step other than a pointer move made
\* under the lock changes the yaw or the pitch.
C16_PointerMoveGating ==
    /\ [](lastLook.seen =>
            /\ ~lastLook.locked => lastLook.after = lastLook.before
            /\ lastLook.locked =>
                  lastLook.after.yaw = lastLook.before.yaw - lastLook.movementX * 35)
    /\ [][(yaw' # yaw \/ pitch' # pitch) =>
              /\ pointerLockElement = CANVAS
              /\ lastLook'.seen /\ lastLook'.locked
              /\ lastLook'.before = [yaw |-> yaw, pitch |-> pitch]
              /\ lastLook'.after = [yaw |-> yaw', pitch |-> pitch']]_vars

\* a move came without the lock after the look had been turned: it left the look
\* as it was
C16_Witness ==
    /\ lastLook.seen
    /\ ~lastLook.locked
    /\ lastLook.movementX # 0
    /\ lastLook.before.yaw # 0
    /\ lastLook.before.pitch # 0
    /\ yaw = lastLook.before.yaw
    /\ pitch = lastLook.before.pitch

\* the keyboard: observed key events of every code, frames
NextKeys ==
    \/ \E code \in KeyCodes, repeat \in BOOLEAN : ObservedKeyDown(code, repeat)
    \/ \E code \in KeyCodes : ObservedKeyUp(code)
    \/ MountBody
    \/ \E delta \in {16} : Frame(delta)

SpecKeys == Init /\ [][NextKeys]_vars

\* the flag each recognized key code stands for
FlagOfCode ==
    [code \in {"KeyW", "KeyS", "KeyA", "KeyD", "Space"} |->
        CASE code = "KeyW" -> "forward"
          [] code = "KeyS" -> "backward"
          [] code = "KeyA" -> "left"
          [] code = "KeyD" -> "right"
          [] code = "Space" -> "jump"]

\* C17: a key-down of W, S, A, D or Space without the repeat flag leaves the record
\* as it was but for that key's flag, which is true; a key-up of one of them leaves
\* it as it was but for that key's flag, which is false; a key-down with the repeat
\* flag and any event of another key leave the record and the jump request as they
\* were.
C17_KeyEventHandling ==
    lastKey.seen =>
        IF lastKey.code \in DOMAIN FlagOfCode /\ ~lastKey.repeat
        THEN /\ lastKey.after =
                  [lastKey.before EXCEPT ![FlagOfCode[lastKey.code]] =
                                            (lastKey.type = "keydown")]
             /\ lastKey.type = "keyup" => lastKey.requestAfter = lastKey.requestBefore
        ELSE /\ lastKey.after = lastKey.before
             /\ lastKey.requestAfter = lastKey.requestBefore

\* a repeat key-down of W came while the record held left and jump but not
\* forward, with no jump request pending: nothing changed
C17_Witness ==
    /\ lastKey.seen
    /\ lastKey.type = "keydown"
    /\ lastKey.repeat
    /\ lastKey.code = "KeyW"
    /\ lastKey.before.left /\ lastKey.before.jump /\ ~lastKey.before.forward
    /\ ~lastKey.requestBefore
    /\ keyState = lastKey.before

\* contacts: observed collision events, Space, the engine's vertical velocity,
\* frames
NextContacts ==
    \/ ObservedCollisionEnter
    \/ ObservedCollisionExit
    \/ OnKeyDown("Space", FALSE)
    \/ MountBody
    \/ \E vy \in {0, JUMP_VY_THRESHOLD} : PhysicsStep(BODY_START, vy, ZeroVec)
    \/ \E delta \in {16} : Frame(delta)

SpecContacts == Init /\ [][NextContacts]_vars

\* C18: the counter is 0 until the first collision event and never negative; a
\* collision-enter leaves it one higher; a collision-exit leaves it one lower when
\* it was positive and at 0 when it was 0; and a frame that finds a request pending
\* and the vertical speed below 0.2 applies the impulse exactly when the counter
\* is above 0.
C18_ContactCounter ==
    /\ contactCount >= 0
    /\ ~lastContact.seen => contactCount = 0
    /\ lastContact.seen =>
          /\ lastContact.type = "enter" => lastContact.after = lastContact.before + 1
          /\ lastContact.type = "exit" =>
                lastContact.after =
                    (IF lastContact.before > 0 THEN lastContact.before - 1 ELSE 0)
    /\ (lastFrame.hadBody /\ lastFrame.requested /\ Abs(lastFrame.readVy) < JUMP_VY_THRESHOLD) =>
          (lastFrame.impulse = UpwardImpulse <=> lastFrame.contacts > 0)

\* a jump was taken with two contacts counted; the contacts ended, and one more
\* collision-exit came with the counter at 0
C18_Witness ==
    /\ lastContact.seen
    /\ lastContact.type = "exit"
    /\ lastContact.before = 0
    /\ contactCount = 0
    /\ lastFrame.hadBody
    /\ lastFrame.contacts = 2
    /\ lastFrame.impulse = UpwardImpulse

\* held keys: W and Space go down and up while the lock comes and goes, the
\* pointer moves and presses, contacts begin and end, frames run, and controller
\* instances mount and unmount
HeldCodes == {"KeyW", "Space"}

NextHeld ==
    \/ \E code \in HeldCodes, repeat \in BOOLEAN : OnKeyDown(code, repeat)
    \/ \E code \in HeldCodes : OnKeyUp(code)
    \/ \E code \in HeldCodes : SecondKeyDown(code, FALSE)
    \/ \E code \in HeldCodes : SecondKeyUp(code)
    \/ LockEvents
    \/ HandlePointerUp(0)
    \/ OnCollisionEnter
    \/ OnCollisionExit
    \/ MountBody
    \/ \E delta \in {16} : Frame(delta)
    \/ Unmount
    \/ Remount
    \/ MountSecond
    \/ UnmountSecond

SpecHeld == Init /\ [][NextHeld]_vars

\* C19: a flag of the key-state record is true exactly while a key-down has set it
\* and no key-up for its key has been received since, whatever frames, lock
\* changes, pointer events, collision events and mounts and unmounts of controller
\* instances came in between; every instance's listeners write the one record.
C19_HeldKeysPersist ==
    \A f \in Flags : keyState[f] <=> downIn[f] # 0

\* W went down in the first controller instance and is still held in the second,
\* beside another instance, after a press, a frame with a body and a contact
C19_Witness ==
    /\ instance > 1
    /\ alive
    /\ second
    /\ keyState.forward
    /\ downIn.forward = 1
    /\ lastFrame.hadBody
    /\ contactCount > 0

\* aiming: W goes down, the lock is taken, the pointer turns the view, frames move
\* the camera and the weapon sway, and presses spawn in between
NextAim ==
    \/ OnKeyDown("KeyW", FALSE)
    \/ HandleClick
    \/ HandlePointerLockChange(CANVAS)
    \/ \E mx \in {x \in MovementXs : x > 0} : HandlePointerMove(mx, 0)
    \/ MountBody
    \/ MountGun
    \/ /\ Abs(gunSway.x) + Abs(gunSway.z) <= SwayCap
       /\ \E delta \in {16} : Frame(delta)
    \/ HandlePointerDown(0, CANVAS)

SpecAim == Init /\ [][NextAim]_vars

\* C20: every record of the collection holds the origin and the direction computed
\* from the camera pose and the sway as they were when it was spawned (direction:
\* the camera's forward unit vector; origin: the camera position plus the rotated
\* muzzle offset), whatever look movement, frames, sway updates and spawns came
\* after; and its component's velocity is that direction at projectile speed.
C20_SpawnDataCapturedOnce ==
    /\ \A i \in 1..Len(projectiles) :
          /\ projectiles[i].id + 1 \in 1..Len(spawnLog)
          /\ projectiles[i] = SpawnRecord(projectiles[i].id,
                                          spawnLog[projectiles[i].id + 1].cam,
                                          spawnLog[projectiles[i].id + 1].sway)
    /\ \A m \in mounted :
          /\ m.id + 1 \in 1..Len(spawnLog)
          /\ m.linvel = MountProjectile(SpawnRecord(m.id, spawnLog[m.id + 1].cam,
                                                    spawnLog[m.id + 1].sway), 0).linvel

\* two records spawned under different views are live, and since the later spawn
\* the camera has turned and the sway has moved
C20_Witness ==
    /\ Len(projectiles) >= 2
    /\ projectiles[1].direction # projectiles[2].direction
    /\ projectiles[1].origin # projectiles[2].origin
    /\ camera.yaw # spawnLog[2].cam.yaw
    /\ gunSway # spawnLog[2].sway
    /\ gunSway # spawnLog[1].sway

\* speed: the four movement keys go down and up, the view turns, frames run
NextSpeed ==
    \/ \E code \in MoveCodes : OnKeyDown(code, FALSE)
    \/ \E code \in MoveCodes : OnKeyUp(code)
    \/ LockEvents
    \/ \E mx \in MovementXs \ {0} : HandlePointerMove(mx, 0)
    \/ MountBody
    \/ \E delta \in {16} : ObservedFrame(delta)

SpecSpeed == Init /\ [][NextSpeed]_vars

\* C21: the horizontal velocity a frame with a body writes has the length of the
\* move speed when forward and backward are not held alike or left and right
\* are not held alike, diagonals included, and is zero when both pairs are held
\* alike (none, forward with backward, left with right, all four), whatever the
\* frame before wrote.
C21_SpeedAllOrNothing ==
    lastWalk.seen =>
        IF \/ lastWalk.keys.forward # lastWalk.keys.backward
           \/ lastWalk.keys.left # lastWalk.keys.right
        THEN Abs(ISqrt(lastWalk.wrote.x * lastWalk.wrote.x
                        + lastWalk.wrote.z * lastWalk.wrote.z) - MOVE_SPEED)
                <= SpeedTolerance
        ELSE lastWalk.wrote.x = 0 /\ lastWalk.wrote.z = 0

\* a frame wrote a diagonal (forward with left) under a turned view
C21_Witness ==
    /\ lastWalk.seen
    /\ lastWalk.keys.forward
    /\ lastWalk.keys.left
    /\ ~lastWalk.keys.backward
    /\ ~lastWalk.keys.right
    /\ lastWalk.yaw # 0
    /\ lastWalk.wrote.x # 0
    /\ lastWalk.wrote.z # 0

\* the scenery cluster: rendered with any of the props in any of the scenes,
\* rendered with another seed, and computed again
NextScenery ==
    \/ \E seed \in Seeds, count \in Counts, radius \in Radii, center \in Centers,
          scene \in Scenes :
          RenderCluster([seed |-> seed, count |-> count, radius |-> radius,
                         center |-> center], scene)
    \/ \E seed \in Seeds : ChangeSeed(seed)
    \/ RenderAgain

SpecScenery == Init /\ [][NextScenery]_vars

\* C22: a second computation for the same seed, count, radius, center and scene
\* gives the same sequence of positions and rotations as the first.
C22_PlacementDeterminism ==
    scenery.runs = 2 => scenery.placements = scenery.before

\* computed twice with two instances placed apart
C22_Witness ==
    /\ scenery.runs = 2
    /\ Len(scenery.placements) = 2
    /\ scenery.placements[1].position # scenery.placements[2].position
    /\ scenery.placements[1].rotation # scenery.placements[2].rotation

\* C23: the computation gives as many instances as the count has whole units, none
\* for a count below 1 (zero, negative, a fraction); with a radius below 0, as
\* with radius 0, every instance is at the center's x and z.
C23_DegenerateParameters ==
    scenery.runs >= 1 =>
        /\ Len(scenery.placements) =
              (IF scenery.props.count >= Milli THEN scenery.props.count \div Milli ELSE 0)
        /\ scenery.props.radius <= 0 =>
              \A i \in 1..Len(scenery.placements) :
                  /\ scenery.placements[i].position.x = scenery.props.center[1]
                  /\ scenery.placements[i].position.z =
                        scenery.props.center[Len(scenery.props.center)]

\* two instances computed for a radius below 0 and a center away from the origin
C23_Witness ==
    /\ scenery.runs >= 1
    /\ scenery.props.radius < 0
    /\ scenery.props.center[1] # 0
    /\ Len(scenery.placements) = 2

\* C24: an instance's height is 0 when the scene has no ground object, and when
\* no ground object is met by the ray down from its x and z; otherwise it is the
\* height of the highest ground surface the ray meets.
C24_GroundHeightFallback ==
    \A i \in 1..Len(scenery.placements) :
        IF \E o \in scenery.scene :
              /\ o.isGround
              /\ o.minX <= scenery.placements[i].position.x
              /\ scenery.placements[i].position.x <= o.maxX
              /\ o.minZ <= scenery.placements[i].position.z
              /\ scenery.placements[i].position.z <= o.maxZ
              /\ o.height <= MAX_RAY_HEIGHT
              /\ o.height >= -MAX_RAY_HEIGHT
        THEN \E o \in scenery.scene :
              /\ o.isGround
              /\ o.minX <= scenery.placements[i].position.x
              /\ scenery.placements[i].position.x <= o.maxX
              /\ o.minZ <= scenery.placements[i].position.z
              /\ scenery.placements[i].position.z <= o.maxZ
              /\ o.height <= MAX_RAY_HEIGHT
              /\ scenery.placements[i].position.y = o.height
              /\ \A q \in scenery.scene :
                    (/\ q.isGround
                     /\ q.minX <= scenery.placements[i].position.x
                     /\ scenery.placements[i].position.x <= q.maxX
                     /\ q.minZ <= scenery.placements[i].position.z
                     /\ scenery.placements[i].position.z <= q.maxZ
                     /\ q.height <= MAX_RAY_HEIGHT) => q.height <= o.height
        ELSE scenery.placements[i].position.y = 0

\* in a scene with ground, one instance stands on the higher of two surfaces and
\* another where the ray met nothing
C24_Witness ==
    /\ \E o \in scenery.scene : o.isGround
    /\ Len(scenery.placements) = 2
    /\ \E i, j \in 1..2 :
          /\ scenery.placements[i].position.y = 0
          /\ \E o, q \in scenery.scene :
                /\ o.isGround
                /\ q.isGround
                /\ q.height < o.height
                /\ q.minX <= scenery.placements[j].position.x
                /\ scenery.placements[j].position.x <= q.maxX
                /\ q.minZ <= scenery.placements[j].position.z
                /\ scenery.placements[j].position.z <= q.maxZ
                /\ scenery.placements[j].position.y = o.height

\* the sway under a held velocity, followed frame by frame at two frame rates
NextPaced ==
    \/ \E v \in HeldVelocities : HoldVelocity(v)
    \/ \E run \in {"a", "b"} : PacedFrame(run)

SpecPaced == Init /\ [][NextPaced]_vars

Near(u, v, tolerance) ==
    /\ Abs(u.x - v.x) <= tolerance
    /\ Abs(u.y - v.y) <= tolerance
    /\ Abs(u.z - v.z) <= tolerance

\* C25: under a held nonzero horizontal velocity, a run of the sway update that has
\* covered the settle time is within the tolerance of -velocity x 0.045 on x and z
\* (0 on y), and two runs at different frame deltas that have covered the same
\* time are within the tolerance of each other.
C25_SwayFrameRateIndependent ==
    /\ \A run \in {"a", "b"} :
          paced[run].elapsed >= SettleTime =>
              Near(paced[run].sway,
                   Vec(-((paced.velocity.x * GUN_SWAY_INTENSITY) \div Milli), 0,
                       -((paced.velocity.z * GUN_SWAY_INTENSITY) \div Milli)),
                   SwayTolerance)
    /\ paced.a.elapsed = paced.b.elapsed => Near(paced.a.sway, paced.b.sway, SwayTolerance)

\* both runs have covered the same time, short of settling, and the sway is well
\* on its way
C25_Witness ==
    /\ paced.held
    /\ paced.a.elapsed = paced.b.elapsed
    /\ paced.a.elapsed > 0
    /\ paced.a.elapsed < SettleTime
    /\ ~Near(paced.a.sway, ZeroVec, SwayTolerance)
    /\ ~Near(paced.a.sway, SwayTarget(paced.velocity), SwayTolerance)

\* expiry: presses and releases, the interval, the clock, and the expiry timeouts
\* observed
NextExpire ==
    \/ /\ PressInstant(now)
       /\ HandlePointerDown(0, CANVAS)
    \/ HandlePointerUp(0)
    \/ \E i \in intervals : IntervalTick(i)
    \/ Tick
    \/ \E m \in mounted : ObservedExpireTimeout(m)

SpecExpire == Init /\ [][NextExpire]_vars

\* C26: when the expiry timeout of the projectile of id k has run, the collection
\* is what it was with the record of id k taken out, the records before it and
\* after it as they were and in the order they were in; the id counter and the
\* interval handle are what they were.
C26_ExpiryRemovesOne ==
    (lastExpire.seen /\ ~lastExpire.late) =>
        /\ \E pos \in 1..Len(lastExpire.before) :
              /\ lastExpire.before[pos].id = lastExpire.id
              /\ lastExpire.after =
                    SubSeq(lastExpire.before, 1, pos - 1)
                        \o SubSeq(lastExpire.before, pos + 1, Len(lastExpire.before))
        /\ lastExpire.counter[2] = lastExpire.counter[1]
        /\ lastExpire.timer[2] = lastExpire.timer[1]

\* the middle one of three records expired while the interval was set
C26_Witness ==
    /\ lastExpire.seen
    /\ ~lastExpire.late
    /\ Len(lastExpire.before) = 3
    /\ lastExpire.before[2].id = lastExpire.id
    /\ lastExpire.timer[1] # NoHandle

\* taps: Space goes down and up, contacts begin, the engine brings the vertical
\* velocity back to 0, and frames run, the key-downs before each counted
NextTaps ==
    \/ \E repeat \in BOOLEAN : CountedKeyDown("Space", repeat)
    \/ OnKeyUp("Space")
    \/ OnCollisionEnter
    \/ MountBody
    \/ PhysicsStep(BODY_START, 0, ZeroVec)
    \/ \E delta \in {16} : CountedFrame(delta)

SpecTaps == Init /\ [][NextTaps]_vars

NextEnd ==
    \/ /\ PressInstant(now)
       /\ now <= AUTO_FIRE_INTERVAL_MS
       /\ HandlePointerDown(0, CANVAS)
    \/ HandlePointerUp(0)
    \/ LockEvents
    \/ \E i \in intervals : IntervalTick(i)
    \/ \E m \in mounted : ExpireTimeout(m)
    \/ Advance(EndTime)

SpecEnd ==
    /\ Init
    /\ [][NextEnd]_vars
    /\ WF_vars(\E m \in mounted : ExpireTimeout(m))
    /\ WF_vars(Advance(EndTime))
    /\ WF_vars(HandlePointerUp(0))

NextGunless ==
    \/ OnKeyDown("KeyW", FALSE)
    \/ OnKeyDown("Space", FALSE)
    \/ OnCollisionEnter
    \/ MountBody
    \/ MountGun
    \/ \E p \in Positions \ {BODY_START} : PhysicsStep(p, 0, Vec(0, Milli, 0))
    \/ /\ Abs(gunSway.x) + Abs(gunSway.z) <= SwayCap
       /\ \E delta \in {16} : GunObservedFrame(delta)

SpecGunless == Init /\ [][NextGunless]_vars

\* C29: a frame that runs with the body handle and without the weapon node leaves
\* the sway and the weapon pose as they were, and still sets the camera pose,
\* writes the velocity, zeroes the angular velocity, applies an impulse exactly
\* when the jump check allows one and clears the request.
C29_MissingWeaponNode ==
    lastGun.seen /\ lastGun.gunless =>
        /\ lastGun.kept
        /\ lastGun.camera
        /\ lastGun.linvel
        /\ lastGun.angvel
        /\ lastGun.applied = (IF lastGun.allowed THEN 1 ELSE 0)
        /\ lastGun.cleared

\* a frame without the weapon node found the sway away from its target, the body
\* spinning and a jump requested and allowed: it applied the impulse, moved the
\* camera off its first pose and left the sway at rest
C29_Witness ==
    /\ lastGun.seen
    /\ lastGun.gunless
    /\ lastGun.pulled
    /\ lastGun.spun
    /\ lastGun.requested
    /\ lastGun.allowed
    /\ lastGun.applied = 1
    /\ gunRef = NULL
    /\ gunSway = ZeroVec
    /\ body.linvel.y = JUMP_IMPULSE
    /\ body.linvel.z # 0
    /\ body.angvel = ZeroVec

\* clicks on the canvas: observed clicks, lock changes, the forward key and Space,
\* pointer moves
NextClick ==
    \/ ObservedClick
    \/ \E element \in {NULL, CANVAS} : HandlePointerLockChange(element)
    \/ \E code \in {"KeyW", "Space"} : OnKeyDown(code, FALSE)
    \/ \E code \in {"KeyW", "Space"} : OnKeyUp(code)
    \/ \E mx \in MovementXs, my \in {-500, 0, 500} : HandlePointerMove(mx, my)

SpecClick == Init /\ [][NextClick]_vars

\* C30: a click while the canvas does not hold the pointer lock leaves a lock
\* request pending, a click while it holds the lock leaves none, and neither
\* changes the yaw, the pitch or the key flags.
C30_PointerLockAcquisition ==
    lastClick.seen =>
        /\ lastClick.after = ~lastClick.locked
        /\ lastClick.kept

\* a click came while the canvas held the lock, with the view turned and tilted
\* and the forward key held, and no request is pending
C30_Witness ==
    /\ lastClick.seen
    /\ lastClick.locked
    /\ ~lastClick.after
    /\ pointerLockElement = CANVAS
    /\ ~lockRequests
    /\ yaw # 0
    /\ pitch # 0
    /\ keyState.forward

\* the auto-fire timer: lock changes, observed presses of the primary button on
\* either target, every stop event, the interval, the expiry timeouts and the clock
NextTimer ==
    \/ LockEvents
    \/ /\ PressInstant(now)
       /\ \E target \in Targets : ObservedPointerDown(0, target)
    \/ HandlePointerUp(0)
    \/ PointerCancel
    \/ PointerLeave
    \/ TimerEvents

SpecTimer == Init /\ [][NextTimer]_vars

\* the spawns the interval made, in order
IntervalSpawns == SelectSeq(spawnLog, LAMBDA e : e.cause = "interval")

\* C31: at most one interval is live and it is the one the ref names, the ref
\* being empty exactly when none is live; a press starts at most one interval and
\* none without spawning; two spawns of the interval are never less than 250 ms
\* apart; after a stop event no interval is live.
C31_OneAutoFireTimer ==
    /\ Cardinality(intervals) <= 1
    /\ (fireIntervalRef = NoHandle) <=> (intervals = {})
    /\ \A i \in intervals : i.handle = fireIntervalRef
    /\ lastPress.seen => lastPress.spawned <= 1 /\ lastPress.started <= lastPress.spawned
    /\ \A k \in 2..Len(IntervalSpawns) :
          IntervalSpawns[k].at >= IntervalSpawns[k - 1].at + AUTO_FIRE_INTERVAL_MS
    /\ stopMark # -1 => intervals = {}

\* a press came while an interval was running: it spawned its projectile and
\* started no interval, the one interval ran on and spawned again
C31_Witness ==
    /\ lastPress.seen
    /\ lastPress.spawned = 1
    /\ lastPress.started = 0
    /\ Cardinality(intervals) = 1
    /\ hold # NoHold
    /\ Len(PressesSinceHold) = 2
    /\ spawnLog[Len(spawnLog)].cause = "interval"

\* frames before and after the body mounts: Space, contacts, the engine moving
\* the body, observed frames
NextPending ==
    \/ OnKeyDown("Space", FALSE)
    \/ OnKeyUp("Space")
    \/ OnCollisionEnter
    \/ OnCollisionExit
    \/ MountBody
    \/ \E vy \in VySamples : PhysicsStep(BODY_START, vy, ZeroVec)
    \/ \E delta \in {16} : FirstBodyFrame(delta)

SpecPending == Init /\ [][NextPending]_vars

\* C32: every frame that runs without the body handle leaves the jump request as
\* it was, so while the handle is missing a request is pending once a non-repeat
\* Space key-down has come; the first frame that runs with the handle finds a
\* request pending exactly when such a key-down came before it, and applies the
\* impulse exactly when it does and the contact counter and the vertical speed
\* allow it.
C32_RequestSurvivesMissingBody ==
    /\ firstBody.kept
    /\ ~firstBody.seen /\ spaceDowns > 0 => jumpRequested
    /\ firstBody.seen =>
          /\ firstBody.requested = (firstBody.downs > 0)
          /\ firstBody.applied =
                (IF firstBody.requested /\ firstBody.allowed THEN 1 ELSE 0)

\* a frame ran without the handle while a request was pending, and the first
\* frame with the handle found the request of the one key-down and applied the
\* impulse
C32_Witness ==
    /\ firstBody.seen
    /\ firstBody.skipped
    /\ firstBody.downs = 1
    /\ firstBody.requested
    /\ firstBody.allowed
    /\ firstBody.applied = 1
    /\ impulses = 1
    /\ ~jumpRequested

\* contacts that begin and end in order: tracked collision events of up to
\* MaxContacts contacts, Space, the body mounting, the engine, frames
NextTouch ==
    \/ \E contact \in 1..MaxContacts : TrackedCollisionEnter(contact)
    \/ \E contact \in 1..MaxContacts : TrackedCollisionExit(contact)
    \/ OnKeyDown("Space", FALSE)
    \/ MountBody
    \/ \E vy \in {0, JUMP_VY_THRESHOLD} : PhysicsStep(BODY_START, vy, ZeroVec)
    \/ \E delta \in {16} : Frame(delta)

SpecTouch == Init /\ [][NextTouch]_vars

\* C33: when every collision-exit follows the collision-enter of its contact, the
\* counter is the number of contacts that began and have not ended, so it is 0
\* exactly when no contact is active, and a frame that read it as 0 applied no
\* impulse.
C33_CounterMatchesContacts ==
    /\ contactCount = Cardinality(touching)
    /\ (contactCount = 0) <=> (touching = {})
    /\ (lastFrame.hadBody /\ lastFrame.contacts = 0) => lastFrame.impulse = ZeroVec

\* two contacts began, one of them ended and the other is still active; the
\* frame before that, with both active, took a jump
C33_Witness ==
    /\ Cardinality(touching) = 1
    /\ contactCount = 1
    /\ lastFrame.hadBody
    /\ lastFrame.contacts = 2
    /\ lastFrame.impulse = UpwardImpulse

\* spawns between frames: the lock, pointer moves that turn and tilt the view,
\* the body mounting, observed frames, observed presses and interval spawns, the
\* release, and the clock over the first two intervals
NextShot ==
    \/ HandleClick
    \/ HandlePointerLockChange(CANVAS)
    \/ HandlePointerMove(150, 500)
    \/ MountBody
    \/ \E delta \in {16} : AimedFrame(delta)
    \/ /\ PressInstant(now)
       /\ AimedPointerDown(0, CANVAS)
    \/ \E i \in intervals : AimedIntervalTick(i)
    \/ HandlePointerUp(0)
    \/ Advance(2 * AUTO_FIRE_INTERVAL_MS)

SpecShot == Init /\ [][NextShot]_vars

\* C34: the record a press or an interval spawn adds has the direction and the
\* origin computed from the pose the last frame with a body gave the camera, or
\* from the camera's first pose when no such frame has run, whatever the look
\* refs were when it spawned.
C34_SpawnUsesFramePose ==
    lastAim.shot =>
        /\ lastAim.direction = SpawnRecord(lastAim.id, lastAim.aimed, lastAim.sway).direction
        /\ lastAim.origin = SpawnRecord(lastAim.id, lastAim.aimed, lastAim.sway).origin

\* the interval spawned after a frame with a body and after pointer moves that
\* turned and tilted the view since that frame: the record's direction is not
\* the one the look refs give
C34_Witness ==
    /\ lastAim.shot
    /\ lastAim.framed
    /\ lastAim.cause = "interval"
    /\ lastAim.look.yaw # lastAim.aimed.yaw
    /\ lastAim.look.pitch # lastAim.aimed.pitch
    /\ lastAim.direction #
          SpawnRecord(lastAim.id, [lastAim.aimed EXCEPT !.pitch = lastAim.look.pitch,
                                                        !.yaw = lastAim.look.yaw],
                      lastAim.sway).direction

\* the cluster rendered with one count after another
NextPrefix ==
    \/ NextScenery
    \/ \E count \in Counts : ChangeCount(count)

SpecPrefix == Init /\ [][NextPrefix]_vars

\* C35: when the cluster is computed for another count with the same seed,
\* radius, center and scene, the shorter of the two results is the beginning of
\* the longer one; and the keys of a result are distinct.
C35_PrefixStability ==
    /\ scenery.runs = 1 =>
          \A i \in 1..Min(Len(scenery.before), Len(scenery.placements)) :
              scenery.placements[i] = scenery.before[i]
    /\ Len(scenery.keys) = Len(scenery.placements)
    /\ \A i, j \in 1..Len(scenery.keys) : i # j => scenery.keys[i] # scenery.keys[j]

\* computed for one instance and then for two, away from the center: the first
\* of the two is the one computed before and the second stands elsewhere
C35_Witness ==
    /\ scenery.runs = 1
    /\ Len(scenery.before) = 1
    /\ Len(scenery.placements) = 2
    /\ scenery.props.radius > 0
    /\ scenery.placements[1] = scenery.before[1]
    /\ scenery.placements[2].position # scenery.placements[1].position
    /\ scenery.keys[1] # scenery.keys[2]

====
